---- MODULE Spec2Model ----
(***************************************************************************)
(* Model of the signalling game of talking-lizards: the sender's message   *)
(* decoder and the receiver's message encoder (src/src/modules.py), the    *)
(* receiver's scoring (src/concon/agents/receiver.py) and the reward, loss *)
(* and training loop of AliceBob (src/src/aliceBob.py), the training loop  *)
(* of Game (src/concon/games/game.py), the generation of the messages of   *)
(* decision_tree_standalone and the n-gram index of decision_tree          *)
(* (src/concon/eval/decision_tree.py), the factory build_cnn               *)
(* (src/src/modules.py) and the draw of the agents of AliceBobPopulation   *)
(* (src/src/games/aliceBobPopulation.py).                                  *)
(*                                                                         *)
(* Tensors of shape [batch] are functions over Rows; a Python list of      *)
(* per-step tensors is a sequence of such functions.  The learned networks *)
(* are opaque: they are modelled by small deterministic integer surrogates *)
(* (a recurrent cell, a table of categorical weights), and sampling from a *)
(* Categorical is a nondeterministic choice among the outcomes of positive *)
(* probability.                                                            *)
(***************************************************************************)
EXTENDS Integers, Sequences, FiniteSets, TLC

VARIABLES
    \* ---- MessageDecoder.forward (src/src/modules.py:71-128)
    training,      \* nn.Module.training of the decoder
    encoded,       \* the meaning vector of each row
    dpc,           \* position in forward: "idle", "loop", "stack", "done"
    i,             \* the loop index of `for i in range(self.max_msg_len)`
    last_symbol,   \* decoder input of the next timestep
    state,         \* recurrent state of each row
    has_stopped,   \* rows that emitted EOS
    message,       \* list of per-step symbol tensors
    log_probs,     \* list of per-step masked log-probabilities
    entropy,       \* list of per-step masked entropies
    outputs,       \* the dictionary returned by forward
    \* ---- MessageEncoder.forward (src/src/modules.py:22-38) and its caller
    e_message,     \* the true symbol sequence of each row
    e_length,      \* `length`: the true length of each row
    e_pad,         \* number of trailing PAD columns of the message tensor
    e_results,     \* the encoder's result for 0, 1, .. e_pad trailing PADs
    \* ---- one round of the game (src/src/aliceBob.py:28-35, 248-273)
    gpc,               \* position in the round: "start", "scored", "rewarded"
    batch,             \* the Batch: target_img and base_distractors of each row
    encoded_message,   \* the receiver's encoding of each row's message
    bob_input,         \* the candidate pool handed to the receiver
    receiver_scores,   \* receiver_outcome.scores
    msg_lengths,       \* sender_action[1]: the message length of each row
    running_avg_success,
    use_expectation,   \* args.use_expectation
    penalty,           \* args.penalty
    adaptative_penalty,\* args.adaptative_penalty
    pointing_action,   \* the action sampled by pointing() in sender_rewards
    successes,         \* returned by sender_rewards
    rewards,           \* returned by sender_rewards
    \* ---- AliceBob.train_epoch (src/src/aliceBob.py:304-403)
    tpc,               \* position in train_epoch
    epoch,             \* argument `epoch`
    step_i,            \* the loop variable `i`
    end_i,
    total_reward,
    total_success,
    total_items,
    running_avg_reward,
    sender_loss,       \* the terms the sender's loss is computed from
    receiver_loss,     \* the terms the receiver's loss is computed from
    loss,              \* sender_loss + receiver_loss
    grad_clipping,     \* args.grad_clipping: <<>> is None, <<v>> is v
    grad_scaling,      \* args.grad_scaling: <<>> is None, <<v>> is v
    event_writer,      \* whether event_writer is not None
    past_dist,         \* whether past_dist is not None
    step_ops,          \* the operations performed so far in the current step
    optim_steps,       \* number of optimizer updates applied in the epoch
    logged,            \* the number_ex_seen tags given to add_scalar
    error,             \* the exception that left train_epoch, "none" without
    \* ---- decision_tree_standalone (src/concon/eval/decision_tree.py:16-36)
    epc,               \* position in decision_tree_standalone
    dataset,           \* the encoding of the image of each datapoint
    messages,          \* the list `messages`
    called_in_training,\* model.training at the time of the call
    \* ---- build_cnn (src/src/modules.py:163-249)
    cnn_args,          \* the arguments of the call
    cnn,               \* what the call raised or returned
    \* ---- AliceBobPopulation (src/src/games/aliceBobPopulation.py:10-64)
    shared,            \* args.shared
    senders,           \* self.senders
    receivers,         \* self.receivers
    rounds,            \* the sender and receiver of each call of forward
    \* ---- ngram_to_idx (src/concon/eval/decision_tree.py:37-72,
    \*      src/src/aliceBob.py:59-90)
    npc,               \* position in the function that defines ngram_to_idx
    tree,              \* which of the two functions defines it
    ngrams,            \* the list `ngrams`: () is <<>>
    idx,               \* what the last call of ngram_to_idx returned
    nerror             \* the exception a call raised, "none" without

dvars == <<training, encoded, dpc, i, last_symbol, state, has_stopped,
           message, log_probs, entropy, outputs>>

evars == <<e_message, e_length, e_pad, e_results>>

gvars == <<gpc, batch, encoded_message, bob_input, receiver_scores, msg_lengths,
           running_avg_success, use_expectation, penalty, adaptative_penalty,
           pointing_action, successes, rewards>>

tvars == <<tpc, epoch, step_i, end_i, total_reward, total_success, total_items,
           running_avg_reward, sender_loss, receiver_loss, loss, grad_clipping,
           grad_scaling, event_writer, past_dist, step_ops, optim_steps, logged, error>>

avars == <<epc, dataset, messages, called_in_training>>

cvars == <<cnn_args, cnn>>

pvars == <<shared, senders, receivers, rounds>>

nvars == <<npc, tree, ngrams, idx, nerror>>

vars == <<dvars, evars, gvars, tvars, avars, cvars, pvars, nvars>>

-----------------------------------------------------------------------------
\* Bounds of the model

BatchSize == 2            \* encoded.size(0)
base_alphabet_size == 1   \* args.base_alphabet_size
max_msg_len == 3          \* args.max_len
EncBatchSize == 1         \* message.size(0) of the encoder's input
MaxTrueLen == 3           \* longest true sequence given to the encoder
MaxPad == 5               \* most trailing PAD columns appended
NumDistractors == 2       \* batch.base_distractors.size(1)
steps_per_epoch == 2      \* argument `steps_per_epoch`
MaxEpochs == 2            \* number of epochs train_epoch is called for
NumDatapoints == 3        \* len(data_iterator) in decision_tree_standalone
MaxLayers == 2            \* most layers asked of build_cnn

Rows == 1..BatchSize

-----------------------------------------------------------------------------
\* MessageDecoder.__init__

eos_index == 0
padding_idx == base_alphabet_size + 1
bos_index == base_alphabet_size + 2

\* The action space of action_space_proj: base_alphabet_size + 1 outputs
ActionSpace == 0..base_alphabet_size

\* The meaning vectors the image encoder may hand to the decoder: the rows
\* of a batch cycle through three encodings
Encodings == {[r \in Rows |-> (r + k) % 3] : k \in 0..2}

-----------------------------------------------------------------------------
\* Generic helpers on sequences

RECURSIVE SumSeq(_)
SumSeq(s) == IF s = <<>> THEN 0 ELSE Head(s) + SumSeq(Tail(s))

RECURSIVE CountNot(_, _)
CountNot(s, x) ==
    IF s = <<>> THEN 0
    ELSE (IF Head(s) # x THEN 1 ELSE 0) + CountNot(Tail(s), x)

\* torch.stack(list, dim=1): from list-of-steps to one row per batch element
Stack(steps) == [r \in DOMAIN encoded |-> [t \in 1..Len(steps) |-> steps[t][r]]]

-----------------------------------------------------------------------------
\* Surrogates of the decoder's learned networks

\* cell_proj / hidden_proj: the initial recurrent state from the encoding
InitialState(e) == e

\* symbol_embeddings: one vector per symbol index (EOS .. BOS)
Embedding(sym) == sym

\* self.lstm: one step of the recurrent cell
LstmCell(h, x) == (2 * h + x + 1) % 5

\* action_space_proj + softmax: unnormalised categorical weights, all positive
Weight(h, a) == 1 + ((h + 2 * a) % 3)

TotalWeight(h) == SumSeq([k \in 1..(base_alphabet_size + 1) |-> Weight(h, k - 1)])

\* probs.argmax(dim=-1): the first index of maximal probability
ArgMax(h) ==
    CHOOSE a \in ActionSpace :
        /\ \A b \in ActionSpace : Weight(h, b) <= Weight(h, a)
        /\ \A b \in ActionSpace : Weight(h, b) = Weight(h, a) => a <= b

\* dist.log_prob(action): negative, zero only for a probability of one
LogProb(h, a) == - (TotalWeight(h) - Weight(h, a))

\* dist.entropy(): positive unless the distribution is degenerate
Entropy(h) ==
    SumSeq([k \in 1..(base_alphabet_size + 1) |->
                Weight(h, k - 1) * (TotalWeight(h) - Weight(h, k - 1))])

\* dist.sample(): any outcome of positive probability
Samples(h) == {a \in ActionSpace : Weight(h, a) > 0}

\* dist.sample() if self.training else probs.argmax(dim=-1)
ActionChoicesSampled(train, h) == Samples(h)

ActionChoices(train, h) == IF train THEN Samples(h) ELSE {ArgMax(h)}

-----------------------------------------------------------------------------
\* MessageDecoder.forward

\* (~has_stopped).float()
NotStoppedAllOnes(stopped) == [r \in DOMAIN stopped |-> 1]

NotStoppedFloat(stopped) == [r \in DOMAIN stopped |-> IF stopped[r] THEN 0 ELSE 1]

\* action.masked_fill(has_stopped, self.padding_idx)
MaskedFillIdentity(action, stopped) == action

MaskedFillBos(action, stopped) ==
    [r \in DOMAIN action |-> IF stopped[r] THEN bos_index ELSE action[r]]

MaskedFill(action, stopped) ==
    [r \in DOMAIN action |-> IF stopped[r] THEN padding_idx ELSE action[r]]

\* has_stopped | (action == self.eos_index)
StoppedUpdateNever(stopped, action) == stopped

StoppedUpdate(stopped, action) ==
    [r \in DOMAIN stopped |-> stopped[r] \/ (action[r] = eos_index)]

\* has_stopped.all()
AllStoppedNever(stopped) == FALSE

AllStopped(stopped) == \A r \in DOMAIN stopped : stopped[r]

\* (message != self.padding_idx).cumsum(dim=1)[:,-1,None]
MessageLenNoEos(msg) ==
    [r \in DOMAIN msg |->
        Cardinality({t \in 1..Len(msg[r]) : msg[r][t] \notin {padding_idx, eos_index}})]

MessageLen(msg) == [r \in DOMAIN msg |-> CountNot(msg[r], padding_idx)]

NoOutputs == [entropy |-> <<>>, log_probs |-> <<>>, message |-> <<>>, message_len |-> <<>>]

DecoderNotCalled ==
    /\ dpc = "idle"
    /\ i = 0
    /\ last_symbol = [r \in Rows |-> bos_index]
    /\ state = [r \in Rows |-> 0]
    /\ has_stopped = [r \in Rows |-> FALSE]
    /\ message = <<>>
    /\ log_probs = <<>>
    /\ entropy = <<>>
    /\ outputs = NoOutputs

DecoderIdle ==
    /\ training \in BOOLEAN
    /\ encoded \in Encodings
    /\ DecoderNotCalled

DecoderUnused ==
    /\ training = TRUE
    /\ encoded = <<>>
    /\ DecoderNotCalled

\* Initialisation of forward, up to the loop
DecoderStart ==
    /\ dpc = "idle"
    /\ last_symbol' = [r \in DOMAIN encoded |-> bos_index]
    /\ state' = [r \in DOMAIN encoded |-> InitialState(encoded[r])]
    /\ message' = <<>>
    /\ log_probs' = <<>>
    /\ entropy' = <<>>
    /\ has_stopped' = [r \in DOMAIN encoded |-> FALSE]
    /\ i' = 0
    /\ dpc' = IF max_msg_len > 0 THEN "loop" ELSE "stack"
    /\ UNCHANGED <<training, encoded, outputs>>
    /\ UNCHANGED <<evars, gvars, tvars, avars, cvars, pvars, nvars>>

\* One iteration of the loop over range(self.max_msg_len)
DecoderStep ==
    /\ dpc = "loop"
    /\ LET output == [r \in DOMAIN encoded |->
                          LstmCell(state[r], Embedding(last_symbol[r]))]
       IN  \E sampled \in [DOMAIN encoded -> ActionSpace] :
             /\ \A r \in DOMAIN encoded :
                    sampled[r] \in ActionChoices(training, output[r])
             /\ LET keep   == NotStoppedFloat(has_stopped)
                    ent    == [r \in DOMAIN encoded |-> Entropy(output[r]) * keep[r]]
                    log_p  == [r \in DOMAIN encoded |->
                                  LogProb(output[r], sampled[r]) * keep[r]]
                    action == MaskedFill(sampled, has_stopped)
                    stopped == StoppedUpdate(has_stopped, action)
                IN  /\ state' = output
                    /\ log_probs' = Append(log_probs, log_p)
                    /\ entropy' = Append(entropy, ent)
                    /\ message' = Append(message, action)
                    /\ has_stopped' = stopped
                    /\ IF AllStopped(stopped)
                       THEN /\ dpc' = "stack"
                            /\ UNCHANGED <<i, last_symbol>>
                       ELSE /\ last_symbol' = action
                            /\ i' = i + 1
                            /\ dpc' = IF i + 1 < max_msg_len THEN "loop" ELSE "stack"
    /\ UNCHANGED <<training, encoded, outputs>>
    /\ UNCHANGED <<evars, gvars, tvars, avars, cvars, pvars, nvars>>

\* Conversion of the lists to tensors and the returned dictionary
DecoderReturn ==
    /\ dpc = "stack"
    /\ LET msg == Stack(message)
           len == MessageLen(msg)
       IN  outputs' = [entropy     |-> [r \in DOMAIN encoded |->
                                          [sum |-> SumSeq(Stack(entropy)[r]), len |-> len[r]]],
                       log_probs   |-> Stack(log_probs),
                       message     |-> msg,
                       message_len |-> len]
    /\ dpc' = "done"
    /\ UNCHANGED <<training, encoded, i, last_symbol, state, has_stopped,
                   message, log_probs, entropy>>
    /\ UNCHANGED <<evars, gvars, tvars, avars, cvars, pvars, nvars>>

-----------------------------------------------------------------------------
\* MessageEncoder.forward

EncRows == 1..EncBatchSize

\* self.lstm of the encoder (batch_first, one layer, one direction, zero
\* initial state): the recurrent output of each timestep of one row
RECURSIVE EncOutputAt(_, _)
EncOutputAt(row, t) ==
    IF t = 0 THEN 0
    ELSE (3 * EncOutputAt(row, t - 1) + Embedding(row[t]) + 2) % 7

EncLstm(msg) ==
    [r \in DOMAIN msg |-> [t \in 1..Len(msg[r]) |-> EncOutputAt(msg[r], t)]]

\* index == (length - 1), with index = torch.arange(message.size(-1))
SelectLastColumn(msg, length) ==
    [r \in DOMAIN msg |-> [t \in 1..Len(msg[r]) |-> (t - 1) = (Len(msg[r]) - 1)]]

SelectMask(msg, length) ==
    [r \in DOMAIN msg |-> [t \in 1..Len(msg[r]) |-> (t - 1) = (length[r] - 1)]]

\* tensor.masked_select(mask): the selected entries, row after row
RECURSIVE MaskedSelectRow(_, _)
MaskedSelectRow(row, mask) ==
    IF row = <<>> THEN <<>>
    ELSE (IF Head(mask) THEN <<Head(row)>> ELSE <<>>)
             \o MaskedSelectRow(Tail(row), Tail(mask))

RECURSIVE MaskedSelect(_, _, _)
MaskedSelect(tensor, mask, r) ==
    IF r > Len(tensor) THEN <<>>
    ELSE MaskedSelectRow(tensor[r], mask[r]) \o MaskedSelect(tensor, mask, r + 1)

\* forward: the result of output.view(batch, output_dim); not ok when the
\* number of selected entries does not fit the shape (view raises)
MessageEncoderForward(msg, length) ==
    LET embeddings == EncLstm(msg)
        output == MaskedSelect(embeddings, SelectMask(msg, length), 1)
    IN  IF Len(output) = Len(msg)
        THEN [ok |-> TRUE, value |-> output]
        ELSE [ok |-> FALSE, value |-> <<>>]

\* The message tensor given to the encoder: every row's true sequence
\* followed by PAD up to the common width, and e_pad more PAD columns
PadTo(row, width) == row \o [t \in 1..(width - Len(row)) |-> padding_idx]

MaxOf(S) == CHOOSE x \in S : \A y \in S : y <= x

PaddedMessage(true, pad) ==
    LET width == MaxOf({Len(true[r]) : r \in DOMAIN true}) + pad
    IN  [r \in DOMAIN true |-> PadTo(true[r], width)]

TrueSequences == UNION {[1..n -> ActionSpace] : n \in 1..MaxTrueLen}

EncoderUnused ==
    /\ e_message = <<>>
    /\ e_length = <<>>
    /\ e_pad = 0
    /\ e_results = <<>>

EncoderInit ==
    /\ e_message \in [EncRows -> TrueSequences]
    /\ e_length = [r \in EncRows |-> Len(e_message[r])]
    /\ e_pad = 0
    /\ e_results = <<>>

\* The receiver encodes the message tensor as it stands
EncoderForward ==
    /\ Len(e_results) = e_pad
    /\ e_results' = Append(e_results,
                           MessageEncoderForward(PaddedMessage(e_message, e_pad), e_length))
    /\ UNCHANGED <<e_message, e_length, e_pad>>
    /\ UNCHANGED <<dvars, gvars, tvars, avars, cvars, pvars, nvars>>

\* The same true sequences come in a tensor one PAD column wider
AppendPad ==
    /\ Len(e_results) = e_pad + 1
    /\ e_pad < MaxPad
    /\ e_pad' = e_pad + 1
    /\ UNCHANGED <<e_message, e_length, e_results>>
    /\ UNCHANGED <<dvars, gvars, tvars, avars, cvars, pvars, nvars>>

-----------------------------------------------------------------------------
\* Exact rational arithmetic for the float tensors of the reward computation

RECURSIVE Gcd(_, _)
Gcd(a, b) == IF b = 0 THEN a ELSE Gcd(b, a % b)

Abs(x) == IF x < 0 THEN -x ELSE x

\* The rational n/d in lowest terms with a positive denominator
Rat(n, d) ==
    LET g == Gcd(Abs(n), Abs(d))
        sgn == IF d < 0 THEN -1 ELSE 1
    IN  [n |-> sgn * (n \div g), d |-> sgn * (d \div g)]

RatInt(k) == [n |-> k, d |-> 1]
RatAdd(a, b) == Rat(a.n * b.d + b.n * a.d, a.d * b.d)
RatSub(a, b) == Rat(a.n * b.d - b.n * a.d, a.d * b.d)
RatMul(a, b) == Rat(a.n * b.n, a.d * b.d)
RatDiv(a, b) == Rat(a.n * b.d, a.d * b.n)
RatLt(a, b) == a.n * b.d < b.n * a.d
RatLe(a, b) == a.n * b.d <= b.n * a.d
RatMin(a, b) == IF RatLe(a, b) THEN a ELSE b

RECURSIVE RatSum(_)
RatSum(s) == IF s = <<>> THEN RatInt(0) ELSE RatAdd(Head(s), RatSum(Tail(s)))

\* tensor.mean() of a tensor of shape [batch]
Mean(t) == RatDiv(RatSum([r \in 1..Len(t) |-> t[r]]), RatInt(Len(t)))

-----------------------------------------------------------------------------
\* Receiver.aux_forward and AliceBob._bob_input

Images == {"x", "y", "z"}

\* self.image_encoder: the feature vector of an image
ImageEncoder(img) ==
    CASE img = "x" -> <<1, 0>>
      [] img = "y" -> <<0, 1>>
      [] img = "z" -> <<0, 0>>

\* The message encodings the receiver's MessageEncoder may produce
MessageEncodings == {<<10, 0>>, <<0, 10>>, <<0, 0>>}

Dot(u, v) == SumSeq([k \in 1..Len(u) |-> u[k] * v[k]])

\* torch.cat([batch.target_img.unsqueeze(1), batch.base_distractors], dim=1)
BobInputTargetLast(b) ==
    [r \in DOMAIN b.target_img |-> b.base_distractors[r] \o <<b.target_img[r]>>]

BobInput(b) ==
    [r \in DOMAIN b.target_img |-> <<b.target_img[r]>> \o b.base_distractors[r]]

\* torch.bmm(encoded_images, encoded_message).squeeze(-1)
ReceiverScores(images, enc_msg) ==
    [r \in DOMAIN images |->
        [k \in 1..Len(images[r]) |-> Dot(ImageEncoder(images[r][k]), enc_msg[r])]]

-----------------------------------------------------------------------------
\* pointing(scores): the softmax of the scores as a Categorical distribution
\* and an action sampled from it

\* exp(s) for s in 0..10, in thousandths
ExpTable == <<1000, 2718, 7389, 20086, 54598, 148413, 403429, 1096633,
              2980958, 8103084, 22026466>>

Exp(s) == ExpTable[s + 1]

\* F.softmax(scores, dim=-1) of one row
Softmax(row) ==
    LET total == SumSeq([k \in 1..Len(row) |-> Exp(row[k])])
    IN  [k \in 1..Len(row) |-> Rat(Exp(row[k]), total)]

\* pointing(scores)['dist'].probs
PointingProbs(scores) == [r \in DOMAIN scores |-> Softmax(scores[r])]

\* The values pointing(scores)['action'] may take: for each row an index
\* (from 0) of positive probability
PointingActions(scores) ==
    {a \in [DOMAIN scores -> 0..(NumDistractors)] :
        \A r \in DOMAIN scores :
            /\ a[r] + 1 <= Len(scores[r])
            /\ PointingProbs(scores)[r][a[r] + 1].n > 0}

-----------------------------------------------------------------------------
\* AliceBob.sender_rewards

\* receiver_pointing['dist'].probs[:, 0].detach()
ExpectationSuccessesIndexOne(probs) == [r \in DOMAIN probs |-> probs[r][2]]

ExpectationSuccesses(probs) == [r \in DOMAIN probs |-> probs[r][1]]

\* (receiver_pointing['action'] == 0).float()
DiceSuccessesArgMax(action, probs) ==
    [r \in DOMAIN action |->
        IF \A k \in 1..Len(probs[r]) : RatLe(probs[r][k], probs[r][1])
        THEN RatInt(1) ELSE RatInt(0)]

DiceSuccesses(action, probs) ==
    [r \in DOMAIN action |-> IF action[r] = 0 THEN RatInt(1) ELSE RatInt(0)]

\* 1.0 - (1.0 / (1.0 + penalty * msg_lengths))
LengthPenaltiesLinear(pen, lengths) ==
    [r \in DOMAIN lengths |-> RatMul(pen, RatInt(lengths[r]))]

LengthPenalties(pen, lengths) ==
    [r \in DOMAIN lengths |->
        RatSub(RatInt(1),
               RatDiv(RatInt(1), RatAdd(RatInt(1), RatMul(pen, RatInt(lengths[r])))))]

\* min(0.0, (running_avg_success - chance_perf) / (1 - chance_perf))
AdaptiveFactorNoMin(avg, scores) ==
    LET chance_perf == Rat(1, Len(scores[1]))
    IN  RatDiv(RatSub(avg, chance_perf), RatSub(RatInt(1), chance_perf))

AdaptiveFactorMax(avg, scores) ==
    LET chance_perf == Rat(1, Len(scores[1]))
        improvement_factor == RatDiv(RatSub(avg, chance_perf),
                                     RatSub(RatInt(1), chance_perf))
    IN  IF RatLe(RatInt(0), improvement_factor) THEN improvement_factor ELSE RatInt(0)

AdaptiveFactor(avg, scores) ==
    LET chance_perf == Rat(1, Len(scores[1]))
        improvement_factor == RatDiv(RatSub(avg, chance_perf),
                                     RatSub(RatInt(1), chance_perf))
    IN  RatMin(RatInt(0), improvement_factor)

\* The pair (rewards, successes) returned for the action that pointing() drew
SenderRewardsInPlace(lengths, scores, avg, use_exp, pen, adaptative, action) ==
    LET probs == PointingProbs(scores)
        succ == IF use_exp THEN ExpectationSuccesses(probs)
                           ELSE DiceSuccesses(action, probs)
        length_penalties == LengthPenalties(pen, lengths)
        rew == IF RatLt(RatInt(0), pen)
               THEN [r \in DOMAIN succ |-> RatSub(succ[r], length_penalties[r])]
               ELSE succ
    IN  [rewards |-> rew, successes |-> rew]

SenderRewards(lengths, scores, avg, use_exp, pen, adaptative, action) ==
    LET probs == PointingProbs(scores)
        succ == IF use_exp THEN ExpectationSuccesses(probs)
                           ELSE DiceSuccesses(action, probs)
        rew == IF RatLt(RatInt(0), pen)
               THEN LET base == LengthPenalties(pen, lengths)
                        length_penalties ==
                            IF adaptative
                            THEN [r \in DOMAIN base |->
                                     RatMul(base[r], AdaptiveFactor(avg, scores))]
                            ELSE base
                    IN  [r \in DOMAIN succ |-> RatSub(succ[r], length_penalties[r])]
               ELSE succ
    IN  [rewards |-> rew, successes |-> succ]

-----------------------------------------------------------------------------
\* One round: AliceBob._forward on the receiver's side, then sender_rewards

\* Batches whose rows show the same target and distractors
Batches ==
    {[target_img |-> [r \in Rows |-> t], base_distractors |-> [r \in Rows |-> ds]] :
        t \in Images, ds \in [1..NumDistractors -> Images]}

GameUnused ==
    /\ gpc = "unused"
    /\ batch = <<>>
    /\ encoded_message = <<>>
    /\ bob_input = <<>>
    /\ receiver_scores = <<>>
    /\ msg_lengths = <<>>
    /\ running_avg_success = RatInt(0)
    /\ use_expectation = FALSE
    /\ penalty = RatInt(0)
    /\ adaptative_penalty = FALSE
    /\ pointing_action = <<>>
    /\ successes = <<>>
    /\ rewards = <<>>

PointingInit ==
    /\ gpc = "start"
    /\ batch \in Batches
    /\ encoded_message \in [Rows -> MessageEncodings]
    /\ bob_input = <<>>
    /\ receiver_scores = <<>>
    /\ msg_lengths = [r \in Rows |-> 1]
    /\ running_avg_success = RatInt(0)
    /\ use_expectation \in BOOLEAN
    /\ penalty = RatInt(0)
    /\ adaptative_penalty = FALSE
    /\ pointing_action = <<>>
    /\ successes = <<>>
    /\ rewards = <<>>

\* sender_rewards on scripted arguments: the scores of a receiver that does
\* not tell the candidates apart, and message lengths, penalty coefficient,
\* adaptative flag and running average drawn from small sets
MessageLengths == {0, 1, 5, 10}

Penalties == {RatInt(0), Rat(1, 10), Rat(1, 2)}

RunningAverages == {RatInt(0), Rat(1, 3), RatInt(1)}

PenaltyInit ==
    /\ gpc = "scored"
    /\ batch = <<>>
    /\ encoded_message = <<>>
    /\ bob_input = <<>>
    /\ receiver_scores \in {[r \in Rows |-> [k \in 1..width |-> 0]] :
                               width \in 2..(1 + NumDistractors)}
    /\ msg_lengths \in [Rows -> MessageLengths]
    /\ running_avg_success \in RunningAverages
    /\ use_expectation \in BOOLEAN
    /\ penalty \in Penalties
    /\ adaptative_penalty \in BOOLEAN
    /\ pointing_action = <<>>
    /\ successes = <<>>
    /\ rewards = <<>>

\* receiver(self._bob_input(batch), *sender_outcome.action)
ReceiverForward ==
    /\ gpc = "start"
    /\ bob_input' = BobInput(batch)
    /\ receiver_scores' = ReceiverScores(BobInput(batch), encoded_message)
    /\ gpc' = "scored"
    /\ UNCHANGED <<batch, encoded_message, msg_lengths, running_avg_success,
                   use_expectation, penalty, adaptative_penalty, pointing_action,
                   successes, rewards>>
    /\ UNCHANGED <<dvars, evars, tvars, avars, cvars, pvars, nvars>>

\* self.sender_rewards(sender_outcome.action, receiver_outcome.scores, running_avg_success)
SenderRewardsCall ==
    /\ gpc = "scored"
    /\ \E action \in PointingActions(receiver_scores) :
          LET res == SenderRewards(msg_lengths, receiver_scores, running_avg_success,
                                   use_expectation, penalty, adaptative_penalty, action)
          IN  /\ pointing_action' = action
              /\ successes' = res.successes
              /\ rewards' = res.rewards
    /\ gpc' = "rewarded"
    /\ UNCHANGED <<batch, encoded_message, bob_input, receiver_scores, msg_lengths,
                   running_avg_success, use_expectation, penalty, adaptative_penalty>>
    /\ UNCHANGED <<dvars, evars, tvars, avars, cvars, pvars, nvars>>

-----------------------------------------------------------------------------
\* AliceBob.receiver_loss

\* The terms of the receiver's loss for the action pointing() drew: the
\* The receiver rewarded as if its action were index 0 at every row
ReceiverLossFirstIndex(scores, use_exp, action) ==
    [raised |-> IF use_exp THEN "NameError" ELSE "none",
     rewards |-> [r \in DOMAIN scores |-> RatInt(1)],
     log_prob_of |-> IF use_exp THEN <<>> ELSE action]

\* rewards and, per row, the index whose log-probability is taken.  In
\* expectation mode the log_prob line reads `probs`, a name that is bound
\* nowhere in receiver_loss or the module: evaluating it raises NameError.
ReceiverLoss(scores, use_exp, action) ==
    LET probs == PointingProbs(scores)
    IN  IF use_exp
        THEN [raised |-> "NameError",
              rewards |-> ExpectationSuccesses(probs),
              log_prob_of |-> <<>>]
        ELSE [raised |-> "none",
              rewards |-> DiceSuccesses(action, probs),
              log_prob_of |-> action]

-----------------------------------------------------------------------------
\* AliceBob.train_epoch

NoLoss == <<>>

\* The scores and message lengths a forward pass of the agents may produce
ForwardScores ==
    {[r \in Rows |-> [k \in 1..(1 + NumDistractors) |-> 0]],
     [r \in Rows |-> [k \in 1..(1 + NumDistractors) |-> IF k = 1 THEN 10 ELSE 0]]}

ForwardLengths == {[r \in Rows |-> 1]}

\* args.grad_clipping, args.grad_scaling: None unless a float is given
Thresholds == {<<>>, <<-1>>, <<0>>, <<1>>}

\* The thresholds of a run: each value of one threshold with the other
\* threshold enabled, and with the other threshold at the same value
ThresholdPairs ==
    {p \in Thresholds \X Thresholds : p[1] = <<1>> \/ p[2] = <<1>> \/ p[1] = p[2]}

\* (threshold is not None) and (threshold > 0)
EnabledNotNone(threshold) == threshold # <<>>

Enabled(threshold) == threshold # <<>> /\ threshold[1] > 0

TrainUnused ==
    /\ tpc = "unused"
    /\ epoch = 1
    /\ step_i = 0
    /\ end_i = 0
    /\ total_reward = RatInt(0)
    /\ total_success = RatInt(0)
    /\ total_items = 0
    /\ running_avg_reward = RatInt(0)
    /\ sender_loss = NoLoss
    /\ receiver_loss = NoLoss
    /\ loss = NoLoss
    /\ grad_clipping = <<>>
    /\ grad_scaling = <<>>
    /\ event_writer = FALSE
    /\ past_dist = FALSE
    /\ step_ops = <<>>
    /\ optim_steps = 0
    /\ logged = <<>>
    /\ error = "none"

TrainInit ==
    /\ tpc = "idle"
    /\ epoch = 1
    /\ step_i = 0
    /\ end_i = 0
    /\ total_reward = RatInt(0)
    /\ total_success = RatInt(0)
    /\ total_items = 0
    /\ running_avg_reward = RatInt(0)
    /\ sender_loss = NoLoss
    /\ receiver_loss = NoLoss
    /\ loss = NoLoss
    /\ \E p \in ThresholdPairs :
          /\ grad_clipping = p[1]
          /\ grad_scaling = p[2]
    /\ event_writer \in BOOLEAN
    /\ past_dist = FALSE
    /\ step_ops = <<>>
    /\ optim_steps = 0
    /\ logged = <<>>
    /\ error = "none"

\* The game state of a training run before its first round
TrainGameInit ==
    /\ gpc = "unused"
    /\ batch = <<>>
    /\ encoded_message = <<>>
    /\ bob_input = <<>>
    /\ receiver_scores = <<>>
    /\ msg_lengths = <<>>
    /\ running_avg_success = RatInt(0)
    /\ use_expectation \in BOOLEAN
    /\ penalty = RatInt(0)
    /\ adaptative_penalty = FALSE
    /\ pointing_action = <<>>
    /\ successes = <<>>
    /\ rewards = <<>>

\* Variables train_epoch leaves alone at every step
TrainConfig == <<epoch, grad_clipping, grad_scaling, event_writer, use_expectation,
                 penalty, adaptative_penalty, gpc, batch, encoded_message, bob_input,
                 pointing_action>>

\* start_i: the first epoch is numbered 1, and the first iteration too
StartIndexFromOne(e) == 1

StartIndex(e) == ((e - 1) * steps_per_epoch) + 1

\* total / total_items
RunningAverageOfBatch(total, items) == RatDiv(total, RatInt(BatchSize))

RunningAverage(total, items) == RatDiv(total, RatInt(items))

\* self.train() and the initialisation of the running statistics
TrainEpochStart ==
    /\ tpc = "idle"
    /\ training' = TRUE
    /\ total_reward' = RatInt(0)
    /\ total_success' = RatInt(0)
    /\ total_items' = 0
    /\ running_avg_reward' = RatInt(0)
    /\ running_avg_success' = RatInt(0)
    /\ step_i' = StartIndex(epoch)
    /\ end_i' = StartIndex(epoch) + steps_per_epoch
    /\ past_dist' = FALSE
    /\ optim_steps' = 0
    /\ step_ops' = <<>>
    /\ tpc' = IF steps_per_epoch > 0 THEN "zero_grad" ELSE "end"
    /\ UNCHANGED <<TrainConfig, receiver_scores, msg_lengths, successes, rewards,
                   sender_loss, receiver_loss, loss, logged, error>>
    /\ UNCHANGED <<encoded, dpc, i, last_symbol, state, has_stopped, message,
                   log_probs, entropy, outputs, evars, avars, cvars, pvars, nvars>>

\* optim.zero_grad()
ZeroGrad ==
    /\ tpc = "zero_grad"
    /\ step_ops' = <<"zero_grad">>
    /\ tpc' = "forward"
    /\ UNCHANGED <<TrainConfig, receiver_scores, msg_lengths, successes, rewards,
                   running_avg_success, step_i, end_i, total_reward, total_success,
                   total_items, running_avg_reward, sender_loss, receiver_loss, loss,
                   past_dist, optim_steps, logged, error>>
    /\ UNCHANGED <<dvars, evars, avars, cvars, pvars, nvars>>

\* sender_outcome, receiver_outcome = self(batch)
Forward ==
    /\ tpc = "forward"
    /\ receiver_scores' \in ForwardScores
    /\ msg_lengths' \in ForwardLengths
    /\ step_ops' = Append(step_ops, "forward")
    /\ tpc' = "sender_loss"
    /\ UNCHANGED <<TrainConfig, successes, rewards,
                   running_avg_success, step_i, end_i, total_reward, total_success,
                   total_items, running_avg_reward, sender_loss, receiver_loss, loss,
                   past_dist, optim_steps, logged, error>>
    /\ UNCHANGED <<dvars, evars, avars, cvars, pvars, nvars>>

\* self.sender_loss(sender_outcome, receiver_outcome.scores, running_avg_success)
SenderLoss ==
    /\ tpc = "sender_loss"
    /\ \E action \in PointingActions(receiver_scores) :
          LET res == SenderRewards(msg_lengths, receiver_scores, running_avg_success,
                                   use_expectation, penalty, adaptative_penalty, action)
          IN  /\ successes' = res.successes
              /\ rewards' = res.rewards
              /\ sender_loss' = [rewards |-> res.rewards]
    /\ step_ops' = Append(step_ops, "sender_loss")
    /\ tpc' = "receiver_loss"
    /\ UNCHANGED <<TrainConfig, receiver_scores, msg_lengths,
                   running_avg_success, step_i, end_i, total_reward, total_success,
                   total_items, running_avg_reward, receiver_loss, loss,
                   past_dist, optim_steps, logged, error>>
    /\ UNCHANGED <<dvars, evars, avars, cvars, pvars, nvars>>

\* self.receiver_loss(receiver_outcome.scores); an exception leaves train_epoch
ReceiverLossCall ==
    /\ tpc = "receiver_loss"
    /\ \E action \in PointingActions(receiver_scores) :
          LET res == ReceiverLoss(receiver_scores, use_expectation, action)
          IN  IF res.raised # "none"
              THEN /\ error' = res.raised
                   /\ tpc' = "raised"
                   /\ UNCHANGED <<receiver_loss, step_ops>>
              ELSE /\ receiver_loss' = [rewards |-> res.rewards,
                                        log_prob_of |-> res.log_prob_of]
                   /\ step_ops' = Append(step_ops, "receiver_loss")
                   /\ tpc' = "backward"
                   /\ UNCHANGED error
    /\ UNCHANGED <<TrainConfig, receiver_scores, msg_lengths, successes, rewards,
                   running_avg_success, step_i, end_i, total_reward, total_success,
                   total_items, running_avg_reward, sender_loss, loss,
                   past_dist, optim_steps, logged>>
    /\ UNCHANGED <<dvars, evars, avars, cvars, pvars, nvars>>

\* loss = sender_loss + receiver_loss; loss.backward()
Backward ==
    /\ tpc = "backward"
    /\ loss' = [terms |-> {"sender_loss", "receiver_loss"}]
    /\ sender_loss' = NoLoss
    /\ receiver_loss' = NoLoss
    /\ step_ops' = Append(step_ops, "backward")
    /\ tpc' = "clip"
    /\ UNCHANGED <<TrainConfig, receiver_scores, msg_lengths, successes, rewards,
                   running_avg_success, step_i, end_i, total_reward, total_success,
                   total_items, running_avg_reward,
                   past_dist, optim_steps, logged, error>>
    /\ UNCHANGED <<dvars, evars, avars, cvars, pvars, nvars>>

\* torch.nn.utils.clip_grad_value_, when grad_clipping is set and positive
GradClip ==
    /\ tpc = "clip"
    /\ step_ops' = IF Enabled(grad_clipping)
                   THEN Append(step_ops, "clip_grad_value") ELSE step_ops
    /\ tpc' = "scale"
    /\ UNCHANGED <<TrainConfig, receiver_scores, msg_lengths, successes, rewards,
                   running_avg_success, step_i, end_i, total_reward, total_success,
                   total_items, running_avg_reward, sender_loss, receiver_loss, loss,
                   past_dist, optim_steps, logged, error>>
    /\ UNCHANGED <<dvars, evars, avars, cvars, pvars, nvars>>

\* torch.nn.utils.clip_grad_norm_, when grad_scaling is set and positive
GradScale ==
    /\ tpc = "scale"
    /\ step_ops' = IF Enabled(grad_scaling)
                   THEN Append(step_ops, "clip_grad_norm") ELSE step_ops
    /\ tpc' = "optim_step"
    /\ UNCHANGED <<TrainConfig, receiver_scores, msg_lengths, successes, rewards,
                   running_avg_success, step_i, end_i, total_reward, total_success,
                   total_items, running_avg_reward, sender_loss, receiver_loss, loss,
                   past_dist, optim_steps, logged, error>>
    /\ UNCHANGED <<dvars, evars, avars, cvars, pvars, nvars>>

\* optim.step()
OptimStep ==
    /\ tpc = "optim_step"
    /\ optim_steps' = optim_steps + 1
    /\ step_ops' = Append(step_ops, "optim_step")
    /\ tpc' = "stats"
    /\ UNCHANGED <<TrainConfig, receiver_scores, msg_lengths, successes, rewards,
                   running_avg_success, step_i, end_i, total_reward, total_success,
                   total_items, running_avg_reward, sender_loss, receiver_loss, loss,
                   past_dist, logged, error>>
    /\ UNCHANGED <<dvars, evars, avars, cvars, pvars, nvars>>

\* The update of the running averages
StatsUpdate ==
    /\ tpc = "stats"
    /\ LET reward_sum == RatAdd(total_reward, RatSum([r \in Rows |-> rewards[r]]))
           success_sum == RatAdd(total_success, RatSum([r \in Rows |-> successes[r]]))
           items == total_items + BatchSize
       IN  /\ total_reward' = reward_sum
           /\ total_success' = success_sum
           /\ total_items' = items
           /\ running_avg_reward' = RunningAverage(reward_sum, items)
           /\ running_avg_success' = RunningAverage(success_sum, items)
    /\ step_ops' = Append(step_ops, "stats")
    /\ tpc' = "log"
    /\ UNCHANGED <<TrainConfig, receiver_scores, msg_lengths, successes, rewards,
                   step_i, end_i, sender_loss, receiver_loss, loss,
                   past_dist, optim_steps, logged, error>>
    /\ UNCHANGED <<dvars, evars, avars, cvars, pvars, nvars>>

\* What a call of the logging sink (add_scalar, autologger.update) may do:
\* return, or raise an exception of its own
SinkOutcomes == {"returned", "raised"}

\* The logging of the step's values, then the next iteration of the loop.
\* The add_scalar calls are in no try block: an exception of the sink leaves
\* train_epoch.
LogStep ==
    /\ tpc = "log"
    /\ \E outcome \in (IF event_writer THEN SinkOutcomes ELSE {"returned"}) :
          IF outcome = "raised"
          THEN /\ error' = "SinkError"
               /\ tpc' = "raised"
               /\ UNCHANGED <<logged, step_ops, past_dist, step_i>>
          ELSE /\ IF event_writer
                  THEN /\ logged' = Append(logged, step_i * BatchSize)
                       /\ step_ops' = Append(step_ops, "log")
                       /\ past_dist' = (past_dist \/ (step_i % 10 = 0))
                  ELSE UNCHANGED <<logged, step_ops, past_dist>>
               /\ step_i' = step_i + 1
               /\ tpc' = IF step_i + 1 < end_i THEN "zero_grad" ELSE "end"
               /\ UNCHANGED error
    /\ UNCHANGED <<TrainConfig, receiver_scores, msg_lengths, successes, rewards,
                   running_avg_success, end_i, total_reward, total_success,
                   total_items, running_avg_reward, sender_loss, receiver_loss, loss,
                   optim_steps>>
    /\ UNCHANGED <<dvars, evars, avars, cvars, pvars, nvars>>

\* self.eval(); the caller then trains the next epoch
TrainEpochEnd ==
    /\ tpc = "end"
    /\ training' = FALSE
    /\ IF epoch < MaxEpochs
       THEN /\ epoch' = epoch + 1
            /\ tpc' = "idle"
       ELSE /\ tpc' = "done"
            /\ UNCHANGED epoch
    /\ UNCHANGED <<grad_clipping, grad_scaling, event_writer, use_expectation,
                   penalty, adaptative_penalty, gpc, batch, encoded_message, bob_input,
                   pointing_action, receiver_scores, msg_lengths, successes, rewards,
                   running_avg_success, step_i, end_i, total_reward, total_success,
                   total_items, running_avg_reward, sender_loss, receiver_loss, loss,
                   past_dist, step_ops, optim_steps, logged, error>>
    /\ UNCHANGED <<encoded, dpc, i, last_symbol, state, has_stopped, message,
                   log_probs, entropy, outputs, evars, avars, cvars, pvars, nvars>>

-----------------------------------------------------------------------------
\* Game.train_epoch

\* What Game.train_epoch and the calls it makes leave alone
GameLoopFrame ==
    <<encoded, dpc, i, last_symbol, state, has_stopped, message, log_probs,
      entropy, outputs, evars, avars, cvars, pvars, nvars, gpc, batch, encoded_message,
      bob_input, receiver_scores, msg_lengths, use_expectation, penalty,
      adaptative_penalty, pointing_action, successes, rewards, total_reward,
      total_success, total_items, running_avg_reward, sender_loss,
      receiver_loss, grad_clipping, grad_scaling, event_writer, past_dist>>

\* args.grad_clipping or 0: None and 0.0 give 0, any other float is kept
OrZeroKeepNone(threshold) == threshold

OrZero(threshold) ==
    IF threshold = <<>> \/ threshold[1] = 0 THEN <<0>> ELSE threshold

\* A game whose thresholds its constructor set to `args.grad_... or 0`, and
\* its autologger
GameTrainInit ==
    /\ tpc = "g_idle"
    /\ epoch = 1
    /\ step_i = 0
    /\ end_i = 0
    /\ total_reward = RatInt(0)
    /\ total_success = RatInt(0)
    /\ total_items = 0
    /\ running_avg_reward = RatInt(0)
    /\ sender_loss = NoLoss
    /\ receiver_loss = NoLoss
    /\ loss = NoLoss
    /\ \E p \in ThresholdPairs :
          /\ grad_clipping = OrZero(p[1])
          /\ grad_scaling = OrZero(p[2])
    /\ event_writer = TRUE
    /\ past_dist = FALSE
    /\ step_ops = <<>>
    /\ optim_steps = 0
    /\ logged = <<>>
    /\ error = "none"

\* start_i = (epoch * steps_per_epoch)
GameStartIndex(e) == e * steps_per_epoch

\* self.grad_clipping > 0
GameEnabled(threshold) == threshold[1] > 0

\* self.start_epoch(...) and the initialisation of the loop
GameTrainEpochStart ==
    /\ tpc = "g_idle"
    /\ training' = TRUE
    /\ step_i' = GameStartIndex(epoch)
    /\ end_i' = GameStartIndex(epoch) + steps_per_epoch
    /\ running_avg_success' = RatInt(0)
    /\ step_ops' = <<>>
    /\ optim_steps' = 0
    /\ tpc' = IF steps_per_epoch > 0 THEN "g_episode" ELSE "g_end"
    /\ UNCHANGED <<epoch, loss, logged, error>>
    /\ UNCHANGED GameLoopFrame

\* get_batch, self.start_episode() and self.optim.zero_grad()
GameStartEpisode ==
    /\ tpc = "g_episode"
    /\ training' = TRUE
    /\ step_ops' = <<"zero_grad">>
    /\ tpc' = "g_interaction"
    /\ UNCHANGED <<epoch, step_i, end_i, running_avg_success, loss, optim_steps, logged, error>>
    /\ UNCHANGED GameLoopFrame

\* loss, *external_output = self.compute_interaction(batch)
GameComputeInteraction ==
    /\ tpc = "g_interaction"
    /\ loss' = [terms |-> {"compute_interaction"}]
    /\ step_ops' = Append(step_ops, "compute_interaction")
    /\ tpc' = "g_backward"
    /\ UNCHANGED <<training, epoch, step_i, end_i, running_avg_success, optim_steps, logged, error>>
    /\ UNCHANGED GameLoopFrame

\* loss.backward()
GameBackward ==
    /\ tpc = "g_backward"
    /\ step_ops' = Append(step_ops, "backward")
    /\ tpc' = "g_clip"
    /\ UNCHANGED <<training, epoch, step_i, end_i, running_avg_success, loss, optim_steps, logged, error>>
    /\ UNCHANGED GameLoopFrame

\* clip_grad_value_ on every agent, when self.grad_clipping > 0; the
\* comparison of None with 0 raises TypeError
GameGradClip ==
    /\ tpc = "g_clip"
    /\ IF grad_clipping = <<>>
       THEN /\ error' = "TypeError"
            /\ tpc' = "raised"
            /\ UNCHANGED step_ops
       ELSE /\ step_ops' = IF GameEnabled(grad_clipping)
                           THEN Append(step_ops, "clip_grad_value") ELSE step_ops
            /\ tpc' = "g_scale"
            /\ UNCHANGED error
    /\ UNCHANGED <<training, epoch, step_i, end_i, running_avg_success, loss, optim_steps, logged>>
    /\ UNCHANGED GameLoopFrame

\* clip_grad_norm_ on every agent, when self.grad_scaling > 0; the
\* comparison of None with 0 raises TypeError
GameGradScale ==
    /\ tpc = "g_scale"
    /\ IF grad_scaling = <<>>
       THEN /\ error' = "TypeError"
            /\ tpc' = "raised"
            /\ UNCHANGED step_ops
       ELSE /\ step_ops' = IF GameEnabled(grad_scaling)
                           THEN Append(step_ops, "clip_grad_norm") ELSE step_ops
            /\ tpc' = "g_optim_step"
            /\ UNCHANGED error
    /\ UNCHANGED <<training, epoch, step_i, end_i, running_avg_success, loss, optim_steps, logged>>
    /\ UNCHANGED GameLoopFrame

\* self.optim.step()
GameOptimStep ==
    /\ tpc = "g_optim_step"
    /\ optim_steps' = optim_steps + 1
    /\ step_ops' = Append(step_ops, "optim_step")
    /\ tpc' = "g_update"
    /\ UNCHANGED <<training, epoch, step_i, end_i, running_avg_success, loss, logged, error>>
    /\ UNCHANGED GameLoopFrame

\* autologger.update(..., index=index) and self.end_episode(...); the call
\* of the autologger is in no try block
GameLoggerUpdate ==
    /\ tpc = "g_update"
    /\ \E outcome \in SinkOutcomes :
          IF outcome = "raised"
          THEN /\ error' = "SinkError"
               /\ tpc' = "raised"
               /\ UNCHANGED <<training, logged, step_ops, step_i>>
          ELSE /\ logged' = Append(logged, step_i)
               /\ step_ops' = Append(step_ops, "log")
               /\ training' = FALSE
               /\ step_i' = step_i + 1
               /\ tpc' = IF step_i + 1 < end_i THEN "g_episode" ELSE "g_end"
               /\ UNCHANGED error
    /\ UNCHANGED <<epoch, end_i, running_avg_success, loss, optim_steps>>
    /\ UNCHANGED GameLoopFrame

\* The end of the loop; the caller then trains the next epoch
GameTrainEpochEnd ==
    /\ tpc = "g_end"
    /\ IF epoch < MaxEpochs
       THEN /\ epoch' = epoch + 1
            /\ tpc' = "g_idle"
       ELSE /\ tpc' = "g_done"
            /\ UNCHANGED epoch
    /\ UNCHANGED <<training, step_i, end_i, running_avg_success, loss, step_ops, optim_steps, logged, error>>
    /\ UNCHANGED GameLoopFrame

-----------------------------------------------------------------------------
\* build_cnn

\* The layer classes a caller may name: the supported ones and another one
LayerClasses == {"conv", "convTranspose", "maxpool", "avgpool", "linear"}

SupportedLayerClasses == {"conv", "convTranspose", "maxpool", "avgpool"}

\* A list of `len` channel counts, strides, paddings
ListOf(len, x) == [j \in 1..len |-> x]

\* The values of `kernel_size`: an int, None, one (height, width) size, or a
\* list of one int per layer.  A size and a list are both Python sequences:
\* `type` records what the caller means, build_cnn sees `value` only.
KernelSizes ==
    {[type |-> "int", value |-> <<3>>],
     [type |-> "NoneType", value |-> <<>>],
     [type |-> "size", value |-> <<3, 5>>]}
    \cup {[type |-> "list", value |-> [j \in 1..len |-> 2 * j + 1]] :
              len \in 0..(MaxLayers + 1)}

\* The values of `paddings` for n layers: None, or a list of n or n + 1
Paddings(n) ==
    {[given |-> FALSE, value |-> <<>>],
     [given |-> TRUE, value |-> ListOf(n, 0)],
     [given |-> TRUE, value |-> ListOf(n + 1, 0)]}

CnnNotBuilt == [raised |-> "not called", layers |-> <<>>, sigmoid |-> FALSE]

CnnRaise(exception) == [raised |-> exception, layers |-> <<>>, sigmoid |-> FALSE]

\* len(set(map(len, (layer_classes, input_channels, output_channels, strides)))) == 1
SameLengths(a) ==
    /\ Len(a.input_channels) = Len(a.layer_classes)
    /\ Len(a.output_channels) = Len(a.layer_classes)
    /\ Len(a.strides) = Len(a.layer_classes)

\* (type(kernel_size) is int) or (len(kernel_size) == 2)
KernelSizeForAllLayers(k) == k.type = "int" \/ Len(k.value) = 2

\* The kernel size of each layer: [kernel_size] * len(layer_classes), or the
\* list itself
KernelSizeOfLayers(k, n) ==
    IF KernelSizeForAllLayers(k)
    THEN [j \in 1..n |-> k.value]
    ELSE [j \in 1..n |-> <<k.value[j]>>]

\* norms: BatchNorm2d for each layer, Flatten for the last one if flatten_last
NormOfLayers(flatten_last, n) ==
    IF flatten_last
    THEN [j \in 1..(n - 1) |-> "BatchNorm2d"] \o <<"Flatten">>
    ELSE [j \in 1..n |-> "BatchNorm2d"]

\* build_cnn: the exception raised, or the layers of the network returned
\* and whether a Sigmoid follows them
BuildCnn(a) ==
    LET n == Len(a.layer_classes)
    IN  IF ~SameLengths(a) THEN CnnRaise("AssertionError")
        ELSE IF a.paddings.given /\ Len(a.paddings.value) # n
        THEN CnnRaise("AssertionError")
        ELSE IF a.kernel_size.type = "NoneType" THEN CnnRaise("TypeError")
        ELSE IF ~KernelSizeForAllLayers(a.kernel_size) /\ Len(a.kernel_size.value) # n
        THEN CnnRaise("AssertionError")
        ELSE IF \E j \in 1..n : a.layer_classes[j] \notin SupportedLayerClasses
        THEN CnnRaise("ValueError")
        ELSE LET paddings == IF a.paddings.given THEN a.paddings.value ELSE ListOf(n, 0)
                 kernel_size == KernelSizeOfLayers(a.kernel_size, n)
                 norms == NormOfLayers(a.flatten_last, n)
             IN  [raised |-> "none",
                  layers |-> [j \in 1..n |->
                                 [class        |-> a.layer_classes[j],
                                  in_channels  |-> a.input_channels[j],
                                  out_channels |-> a.output_channels[j],
                                  kernel_size  |-> kernel_size[j],
                                  stride       |-> a.strides[j],
                                  padding      |-> paddings[j],
                                  norm         |-> norms[j]]],
                  sigmoid |-> a.sigmoid_after]

CnnUnused ==
    /\ cnn_args = <<>>
    /\ cnn = CnnNotBuilt

\* The arguments of a call: every list as long as layer_classes or one longer
CnnInit ==
    /\ \E n \in 0..MaxLayers :
          \E classes \in [1..n -> LayerClasses], d \in [1..3 -> 0..1],
             pad \in Paddings(n), k \in KernelSizes, flat, sigmoid \in BOOLEAN :
              cnn_args = [layer_classes   |-> classes,
                          input_channels  |-> ListOf(n + d[1], 8),
                          output_channels |-> ListOf(n + d[2], 8),
                          strides         |-> ListOf(n + d[3], 2),
                          paddings        |-> pad,
                          kernel_size     |-> k,
                          flatten_last    |-> flat,
                          sigmoid_after   |-> sigmoid]
    /\ cnn = CnnNotBuilt

\* cnn = build_cnn(**cnn_args)
BuildCnnCall ==
    /\ cnn = CnnNotBuilt
    /\ cnn_args # <<>>
    /\ cnn' = BuildCnn(cnn_args)
    /\ UNCHANGED cnn_args
    /\ UNCHANGED <<dvars, evars, gvars, tvars, avars, pvars, nvars>>

-----------------------------------------------------------------------------
\* decision_tree_standalone: the generation of the messages

\* The encodings the image encoder may give to the image of one datapoint
DatapointEncodings == {e[r] : e \in Encodings, r \in Rows}

\* tensor.view(-1).tolist(): the rows of the tensor one after the other
RECURSIVE ViewFlat(_)
ViewFlat(t) == IF t = <<>> THEN <<>> ELSE Head(t) \o ViewFlat(Tail(t))

EvalUnused ==
    /\ epc = "unused"
    /\ dataset = <<>>
    /\ messages = <<>>
    /\ called_in_training = FALSE

\* dataset = np.array([data_iterator.get_datapoint(i) for i in range(n)])
EvalInit ==
    /\ epc = "start"
    /\ dataset \in [1..NumDatapoints -> DatapointEncodings]
    /\ messages = <<>>
    /\ called_in_training = training

\* The decoder of a model that decision_tree_standalone is handed: in either
\* mode, and not called yet
EvalDecoderInit ==
    /\ training \in BOOLEAN
    /\ encoded = <<>>
    /\ dpc = "waiting"
    /\ i = 0
    /\ last_symbol = <<>>
    /\ state = <<>>
    /\ has_stopped = <<>>
    /\ message = <<>>
    /\ log_probs = <<>>
    /\ entropy = <<>>
    /\ outputs = NoOutputs

\* model.eval()
EvalMode ==
    /\ epc = "start"
    /\ training' = FALSE
    /\ epc' = "loop"
    /\ UNCHANGED <<encoded, dpc, i, last_symbol, state, has_stopped, message,
                   log_probs, entropy, outputs, dataset, messages,
                   called_in_training>>
    /\ UNCHANGED <<evars, gvars, tvars, cvars, pvars, nvars>>

\* The sender called on the image together with the first image of the dataset
SenderCallPair ==
    /\ epc = "loop"
    /\ dpc = "waiting"
    /\ Len(messages) < Len(dataset)
    /\ encoded' = <<dataset[Len(messages) + 1], dataset[1]>>
    /\ dpc' = "idle"
    /\ UNCHANGED <<training, i, last_symbol, state, has_stopped, message,
                   log_probs, entropy, outputs, avars>>
    /\ UNCHANGED <<evars, gvars, tvars, cvars, pvars, nvars>>

\* model.sender(datapoint.img.unsqueeze(0)): a batch of one image
SenderCall ==
    /\ epc = "loop"
    /\ dpc = "waiting"
    /\ Len(messages) < Len(dataset)
    /\ encoded' = <<dataset[Len(messages) + 1]>>
    /\ dpc' = "idle"
    /\ UNCHANGED <<training, i, last_symbol, state, has_stopped, message,
                   log_probs, entropy, outputs, avars>>
    /\ UNCHANGED <<evars, gvars, tvars, cvars, pvars, nvars>>

\* messages.append(sender_outcome.action[0].view(-1).tolist())
AppendMessage ==
    /\ epc = "loop"
    /\ dpc = "done"
    /\ messages' = Append(messages, ViewFlat(outputs.message))
    /\ dpc' = "waiting"
    /\ UNCHANGED <<training, encoded, i, last_symbol, state, has_stopped, message,
                   log_probs, entropy, outputs, epc, dataset, called_in_training>>
    /\ UNCHANGED <<evars, gvars, tvars, cvars, pvars, nvars>>

\* The end of the loop over the dataset
EvalReturn ==
    /\ epc = "loop"
    /\ dpc = "waiting"
    /\ Len(messages) = Len(dataset)
    /\ epc' = "done"
    /\ UNCHANGED <<dvars, dataset, messages, called_in_training>>
    /\ UNCHANGED <<evars, gvars, tvars, cvars, pvars, nvars>>

-----------------------------------------------------------------------------
\* AliceBobPopulation

population == 2           \* args.population
MaxRounds == 3            \* number of calls of forward

\* An agent module: `built` numbers the from_args call that built the object
\* it belongs to, so the two modules of one SenderReceiver share it
AgentModule(built, role) == [built |-> built, role |-> role]

\* __init__: with args.shared the k-th sender and receiver are the two parts
\* of the k-th SenderReceiver; without, all are built on their own
BuildSenders(is_shared) == [k \in 1..population |-> AgentModule(k, "sender")]

BuildReceivers(is_shared) ==
    [k \in 1..population |->
        AgentModule(IF is_shared THEN k ELSE population + k, "receiver")]

\* random.choice(seq): any element of the sequence
Choice(seq) == {seq[k] : k \in DOMAIN seq}

PopulationUnused ==
    /\ shared = FALSE
    /\ senders = <<>>
    /\ receivers = <<>>
    /\ rounds = <<>>

PopulationInit ==
    /\ shared \in BOOLEAN
    /\ senders = BuildSenders(shared)
    /\ receivers = BuildReceivers(shared)
    /\ rounds = <<>>

\* forward: the agents of the round are drawn, then play it
PopulationForwardCouple ==
    /\ senders # <<>>
    /\ Len(rounds) < MaxRounds
    /\ \E k \in DOMAIN senders :
          rounds' = Append(rounds, [sender |-> senders[k], receiver |-> receivers[k]])
    /\ UNCHANGED <<shared, senders, receivers>>
    /\ UNCHANGED <<dvars, evars, gvars, tvars, avars, cvars, nvars>>

PopulationForward ==
    /\ senders # <<>>
    /\ Len(rounds) < MaxRounds
    /\ \E sender \in Choice(senders) :
          \E receiver \in Choice(receivers) :
             rounds' = Append(rounds, [sender |-> sender, receiver |-> receiver])
    /\ UNCHANGED <<shared, senders, receivers>>
    /\ UNCHANGED <<dvars, evars, gvars, tvars, avars, cvars, nvars>>

-----------------------------------------------------------------------------
\* ngram_to_idx

MaxNgrams == 3            \* most different n-grams given to ngram_to_idx

\* alphabet_size=(1 + model.base_alphabet_size); args.alphabet + 1
alphabet_size == 1 + base_alphabet_size

\* The two functions that define ngram_to_idx
Trees == {"decision_tree", "AliceBob.decision_tree"}

\* n = 3 in decision_tree, n = 2 in AliceBob.decision_tree
NgramOrder(fn) == IF fn = "decision_tree" THEN 3 ELSE 2

RECURSIVE Pow(_, _)
Pow(b, e) == IF e = 0 THEN 1 ELSE b * Pow(b, e - 1)

\* nb_ngrams = alphabet_size * (alphabet_size**n - 1) // (alphabet_size - 1)
NbNgrams(fn) ==
    (alphabet_size * (Pow(alphabet_size, NgramOrder(fn)) - 1)) \div (alphabet_size - 1)

\* The n-grams of the messages: tuple(message[i:(i + l)]) for l in 1..n
Ngrams(fn) ==
    UNION {[1..l -> 0..(alphabet_size - 1)] : l \in 1..NgramOrder(fn)}

\* last_tuple = tuple([last_symbol] * n)
LastTuple(fn) == [t \in 1..NgramOrder(fn) |-> alphabet_size - 1]

\* idx: the sum of (k + 1) * (alphabet_size**i) over enumerate(ngram), minus 1
NgramIdxNoUnit(ngram) ==
    SumSeq([t \in 1..Len(ngram) |-> ngram[t] * Pow(alphabet_size, t - 1)]) - 1

NgramIdx(ngram) ==
    SumSeq([t \in 1..Len(ngram) |-> (ngram[t] + 1) * Pow(alphabet_size, t - 1)]) - 1

\* One call of ngram_to_idx on the list `table`: the list after the call,
\* the value returned and the exception raised.  A Python list takes the
\* indices -len .. len - 1; the assertion is in decision_tree only
NgramToIdx(fn, table, ngram) ==
    LET k == NgramIdx(ngram)
        at == IF k < 0 THEN k + Len(table) + 1 ELSE k + 1
    IN  IF at < 1 \/ at > Len(table)
        THEN [ngrams |-> table, idx |-> k, raised |-> "IndexError"]
        ELSE IF fn = "decision_tree" /\ table[at] \notin {<<>>, ngram}
        THEN [ngrams |-> table, idx |-> k, raised |-> "AssertionError"]
        ELSE [ngrams |-> [table EXCEPT ![at] = ngram], idx |-> k, raised |-> "none"]

NgramUnused ==
    /\ npc = "unused"
    /\ tree = "none"
    /\ ngrams = <<>>
    /\ idx = 0
    /\ nerror = "none"

\* ngrams = [()] * nb_ngrams
NgramInit ==
    /\ tree \in Trees
    /\ npc = IF tree = "decision_tree" THEN "last_tuple" ELSE "messages"
    /\ ngrams = [k \in 1..NbNgrams(tree) |-> <<>>]
    /\ idx = 0
    /\ nerror = "none"

\* print('Id of %s: %i' % (last_tuple, ngram_to_idx(last_tuple)))
IdOfLastTuple ==
    /\ npc = "last_tuple"
    /\ LET res == NgramToIdx(tree, ngrams, LastTuple(tree))
       IN  /\ ngrams' = res.ngrams
           /\ idx' = res.idx
           /\ nerror' = res.raised
           /\ npc' = IF res.raised = "none" THEN "messages" ELSE "raised"
    /\ UNCHANGED tree
    /\ UNCHANGED <<dvars, evars, gvars, tvars, avars, cvars, pvars>>

\* idx = ngram_to_idx(ngram) for an n-gram of a message
NgramOfMessage ==
    /\ npc = "messages"
    /\ \E ngram \in Ngrams(tree) :
          /\ \/ \E k \in 1..Len(ngrams) : ngrams[k] = ngram
             \/ Cardinality({k \in 1..Len(ngrams) : ngrams[k] # <<>>}) < MaxNgrams
          /\ LET res == NgramToIdx(tree, ngrams, ngram)
             IN  /\ ngrams' = res.ngrams
                 /\ idx' = res.idx
                 /\ nerror' = res.raised
                 /\ npc' = IF res.raised = "none" THEN "messages" ELSE "raised"
    /\ UNCHANGED tree
    /\ UNCHANGED <<dvars, evars, gvars, tvars, avars, cvars, pvars>>

-----------------------------------------------------------------------------
\* Specifications

Init ==
    /\ DecoderIdle /\ EncoderUnused /\ GameUnused /\ TrainUnused
    /\ EvalUnused /\ CnnUnused
    /\ PopulationUnused /\ NgramUnused

Next ==
    \/ DecoderStart
    \/ DecoderStep
    \/ DecoderReturn

Spec == Init /\ [][Next]_vars

InitEncoder ==
    /\ DecoderUnused /\ EncoderInit /\ GameUnused /\ TrainUnused
    /\ EvalUnused /\ CnnUnused
    /\ PopulationUnused /\ NgramUnused

NextEncoder ==
    \/ EncoderForward
    \/ AppendPad

SpecEncoder == InitEncoder /\ [][NextEncoder]_vars

InitPointing ==
    /\ DecoderUnused /\ EncoderUnused /\ PointingInit /\ TrainUnused
    /\ EvalUnused /\ CnnUnused
    /\ PopulationUnused /\ NgramUnused

NextPointing ==
    \/ ReceiverForward
    \/ SenderRewardsCall

SpecPointing == InitPointing /\ [][NextPointing]_vars

InitPenalty ==
    /\ DecoderUnused /\ EncoderUnused /\ PenaltyInit /\ TrainUnused
    /\ EvalUnused /\ CnnUnused
    /\ PopulationUnused /\ NgramUnused

NextPenalty == SenderRewardsCall

SpecPenalty == InitPenalty /\ [][NextPenalty]_vars

InitTrain ==
    /\ training \in BOOLEAN
    /\ encoded = <<>>
    /\ DecoderNotCalled
    /\ EncoderUnused
    /\ \/ TrainGameInit /\ TrainInit
       \/ GameUnused /\ GameTrainInit
    /\ EvalUnused
    /\ CnnUnused
    /\ PopulationUnused /\ NgramUnused

NextTrain ==
    \/ TrainEpochStart
    \/ ZeroGrad
    \/ Forward
    \/ SenderLoss
    \/ ReceiverLossCall
    \/ Backward
    \/ GradClip
    \/ GradScale
    \/ OptimStep
    \/ StatsUpdate
    \/ LogStep
    \/ TrainEpochEnd
    \/ GameTrainEpochStart
    \/ GameStartEpisode
    \/ GameComputeInteraction
    \/ GameBackward
    \/ GameGradClip
    \/ GameGradScale
    \/ GameOptimStep
    \/ GameLoggerUpdate
    \/ GameTrainEpochEnd

SpecTrain == InitTrain /\ [][NextTrain]_vars

InitEval ==
    /\ EvalDecoderInit /\ EncoderUnused /\ GameUnused /\ TrainUnused
    /\ EvalInit /\ CnnUnused
    /\ PopulationUnused /\ NgramUnused

NextEval ==
    \/ EvalMode
    \/ SenderCall
    \/ DecoderStart
    \/ DecoderStep
    \/ DecoderReturn
    \/ AppendMessage
    \/ EvalReturn

SpecEval == InitEval /\ [][NextEval]_vars

InitCnn ==
    /\ DecoderUnused /\ EncoderUnused /\ GameUnused /\ TrainUnused
    /\ EvalUnused /\ CnnInit
    /\ PopulationUnused /\ NgramUnused

NextCnn == BuildCnnCall

SpecCnn == InitCnn /\ [][NextCnn]_vars

InitPopulation ==
    /\ DecoderUnused /\ EncoderUnused /\ GameUnused /\ TrainUnused
    /\ EvalUnused /\ CnnUnused
    /\ PopulationInit /\ NgramUnused

NextPopulation == PopulationForward

SpecPopulation == InitPopulation /\ [][NextPopulation]_vars

InitNgram ==
    /\ DecoderUnused /\ EncoderUnused /\ GameUnused /\ TrainUnused
    /\ EvalUnused /\ CnnUnused
    /\ PopulationUnused /\ NgramInit

NextNgram ==
    \/ IdOfLastTuple
    \/ NgramOfMessage

SpecNgram == InitNgram /\ [][NextNgram]_vars

-----------------------------------------------------------------------------
\* Properties of MessageDecoder.forward

EosPositions(row) == {t \in 1..Len(row) : row[t] = eos_index}

FirstEos(row) == CHOOSE t \in EosPositions(row) : \A u \in EosPositions(row) : t <= u

\* The recurrent output of timestep t of a row, recomputed from the row's
\* encoding and the symbols it emitted before t
RECURSIVE OutputAt(_, _, _)
OutputAt(e, row, t) ==
    IF t = 0 THEN InitialState(e)
    ELSE LstmCell(OutputAt(e, row, t - 1),
                  Embedding(IF t = 1 THEN bos_index ELSE row[t - 1]))

\* C1: in a returned message every position after a row's first EOS holds
\* PAD, every position after a PAD holds PAD, and a PAD is always preceded
\* by an EOS of the same row.
C1_PadOnlyAfterEos ==
    dpc = "done" =>
        \A r \in Rows :
            LET row == outputs.message[r]
            IN  \A t \in 1..Len(row) :
                    /\ (\E s \in 1..(t - 1) : row[s] = eos_index) => row[t] = padding_idx
                    /\ row[t] = padding_idx =>
                           /\ \A u \in t..Len(row) : row[u] = padding_idx
                           /\ \E s \in 1..(t - 1) : row[s] = eos_index

\* A sampled message whose first symbol is EOS and that is padded up to the
\* full width, next to a row that never stopped
C1_Witness ==
    /\ dpc = "done"
    /\ training
    /\ \E r, q \in Rows :
          /\ outputs.message[r][1] = eos_index
          /\ Len(outputs.message[r]) = max_msg_len
          /\ outputs.message[r][max_msg_len] = padding_idx
          /\ EosPositions(outputs.message[q]) = {}

\* C2: the reported message_len is the number of non-PAD positions, counts
\* the EOS step (index of the first EOS plus one, max_len without EOS) and
\* lies in 1..max_len.
C2_MessageLen ==
    dpc = "done" =>
        \A r \in Rows :
            LET row == outputs.message[r]
                len == outputs.message_len[r]
            IN  /\ len = Cardinality({t \in 1..Len(row) : row[t] # padding_idx})
                /\ len = (IF EosPositions(row) # {} THEN FirstEos(row) ELSE max_msg_len)
                /\ 1 <= len
                /\ len <= max_msg_len

\* One row stops at once (length 1), another never stops (length max_len)
C2_Witness ==
    /\ dpc = "done"
    /\ \E r, q \in Rows :
          /\ outputs.message[r][1] = eos_index
          /\ outputs.message_len[r] = 1
          /\ EosPositions(outputs.message[q]) = {}
          /\ outputs.message_len[q] = max_msg_len

\* C3: at every timestep at which a row had already emitted EOS the recorded
\* log-probability and entropy are zero; at the EOS step and before they are
\* the distribution's own log-probability of the emitted symbol and entropy.
C3_MaskedSteps ==
    \A t \in 1..Len(message) : \A r \in Rows :
        LET row == Stack(message)[r]
            out == OutputAt(encoded[r], row, t)
        IN  IF \E s \in 1..(t - 1) : row[s] = eos_index
            THEN /\ log_probs[t][r] = 0
                 /\ entropy[t][r] = 0
            ELSE /\ log_probs[t][r] = LogProb(out, row[t])
                 /\ entropy[t][r] = Entropy(out)
                 /\ log_probs[t][r] < 0
                 /\ entropy[t][r] > 0

\* A row that stopped at the first step and was masked afterwards while the
\* network went on sampling, with its EOS step unmasked
C3_Witness ==
    /\ dpc = "done"
    /\ training
    /\ \E r \in Rows :
          /\ outputs.message[r][1] = eos_index
          /\ Len(outputs.message[r]) >= 2
          /\ outputs.message[r][2] = padding_idx
          /\ outputs.log_probs[r][1] < 0
          /\ outputs.log_probs[r][2] = 0
          /\ entropy[2][r] = 0

-----------------------------------------------------------------------------
\* Properties of MessageEncoder.forward

\* C4: the encoder returns, for each row, the recurrent output at timestep
\* length - 1 of the row's true sequence, so the result for a true sequence
\* is the same for every number of trailing PADs appended to it.
C4_PadInvariant ==
    \A k \in 1..Len(e_results) :
        /\ e_results[k].ok
        /\ \A r \in EncRows :
               e_results[k].value[r] = EncOutputAt(e_message[r], e_length[r])
        /\ e_results[k] = e_results[1]

\* A true sequence of length 3 encoded with 0 and with 5 trailing PADs
C4_Witness ==
    /\ Len(e_results) = 6
    /\ \E r \in EncRows : e_length[r] = 3
    /\ e_pad = 5
    /\ \A r \in EncRows : PaddedMessage(e_message, e_pad)[r][e_length[r] + 5] = padding_idx

-----------------------------------------------------------------------------
\* Properties of the round: candidate pool and success

\* Index 0 holds a maximal score of the row
IndexZeroIsMax(row) == \A k \in 1..Len(row) : row[k] <= row[1]

\* C5: the receiver's pool of each row is the target image at index 0
\* followed by the distractors (K = 1 + number of distractors), and the
\* success of a row is decided by position 0 of the pointing alone: the
\* sampled action being 0, or the probability of index 0.
C5_TargetAtIndexZero ==
    /\ gpc \in {"scored", "rewarded"} =>
          \A r \in Rows :
              /\ Len(bob_input[r]) = 1 + Len(batch.base_distractors[r])
              /\ Len(receiver_scores[r]) = Len(bob_input[r])
              /\ bob_input[r][1] = batch.target_img[r]
              /\ \A k \in 1..Len(batch.base_distractors[r]) :
                     bob_input[r][k + 1] = batch.base_distractors[r][k]
    /\ gpc = "rewarded" =>
          \A r \in Rows :
              successes[r] =
                  IF use_expectation
                  THEN Softmax(ReceiverScores(bob_input, encoded_message)[r])[1]
                  ELSE IF pointing_action[r] = 0 THEN RatInt(1) ELSE RatInt(0)

\* The receiver points at a distractor that is the same image as the target
\* and the row is a failure all the same
C5_Witness ==
    /\ gpc = "rewarded"
    /\ ~use_expectation
    /\ \E r \in Rows :
          /\ pointing_action[r] # 0
          /\ bob_input[r][pointing_action[r] + 1] = batch.target_img[r]
          /\ successes[r] = RatInt(0)

\* C6 as stated: in dice mode every row whose index-0 score is the maximum
\* of its row has success 1.0.
C6_Original ==
    (gpc = "rewarded" /\ ~use_expectation) =>
        \A r \in Rows :
            IndexZeroIsMax(receiver_scores[r]) => successes[r] = RatInt(1)

\* Scenario A: K = 3 and the scores [10, 0, 0] and [0, 10, 0]
ScenarioA ==
    /\ NumDistractors = 2
    /\ receiver_scores[1] = <<10, 0, 0>>
    /\ receiver_scores[2] = <<0, 10, 0>>

\* C6 (amended): in dice mode the success of a row is 1.0 exactly when the
\* action sampled for it is index 0 and 0.0 otherwise, the action being any
\* index of positive probability; in scenario A the successes are [1.0, 0.0]
\* with mean 0.5 when the sampled actions are the best-scored indices 0 and 1.
C6_DiceSuccess ==
    (gpc = "rewarded" /\ ~use_expectation) =>
        /\ \A r \in Rows :
              /\ successes[r] \in {RatInt(0), RatInt(1)}
              /\ successes[r] = RatInt(1) <=> pointing_action[r] = 0
              /\ RatLt(RatInt(0), PointingProbs(receiver_scores)[r][pointing_action[r] + 1])
        /\ (BatchSize = 2 /\ ScenarioA /\ pointing_action = <<0, 1>>) =>
              /\ successes = <<RatInt(1), RatInt(0)>>
              /\ Mean(successes) = Rat(1, 2)

\* Scenario A with the best-scored indices sampled
C6_Witness ==
    /\ gpc = "rewarded"
    /\ ~use_expectation
    /\ ScenarioA
    /\ pointing_action[1] = 0
    /\ pointing_action[2] = 1
    /\ successes[1] = RatInt(1)
    /\ successes[2] = RatInt(0)

\* C7 as stated: in expectation mode the success exceeds 1/K whenever index
\* 0 has the maximum score of the row.
C7_Original ==
    (gpc = "rewarded" /\ use_expectation) =>
        \A r \in Rows :
            IndexZeroIsMax(receiver_scores[r]) =>
                RatLt(Rat(1, Len(receiver_scores[r])), successes[r])

\* C7 (amended): in expectation mode the success of a row is the softmax
\* probability of index 0, a value in [0,1] whatever action was sampled; it
\* is at least 1/K whenever index 0 has the maximum score of the row, and
\* exceeds 1/K when moreover some score of the row is smaller.
C7_ExpectationSuccess ==
    (gpc = "rewarded" /\ use_expectation) =>
        \A r \in Rows :
            LET row == receiver_scores[r]
                total == SumSeq([k \in 1..Len(row) |-> Exp(row[k])])
                chance == Rat(1, Len(row))
            IN  /\ successes[r] = Rat(Exp(row[1]), total)
                /\ RatLe(RatInt(0), successes[r])
                /\ RatLe(successes[r], RatInt(1))
                /\ IndexZeroIsMax(row) => RatLe(chance, successes[r])
                /\ (IndexZeroIsMax(row) /\ \E k \in 1..Len(row) : row[k] < row[1])
                       => RatLt(chance, successes[r])

\* A row whose index 0 is the strict maximum, with a fractional success
\* above 1/K although a distractor was sampled, next to a row of equal scores
C7_Witness ==
    /\ gpc = "rewarded"
    /\ use_expectation
    /\ \E r, q \in Rows :
          /\ receiver_scores[r][1] = 10
          /\ \A k \in 2..Len(receiver_scores[r]) : receiver_scores[r][k] = 0
          /\ pointing_action[r] # 0
          /\ RatLt(Rat(1, Len(receiver_scores[r])), successes[r])
          /\ RatLt(successes[r], RatInt(1))
          /\ \A k \in 1..Len(receiver_scores[q]) : receiver_scores[q][k] = 0
          /\ successes[q] = Rat(1, Len(receiver_scores[q]))

-----------------------------------------------------------------------------
\* Properties of the length penalty of sender_rewards

\* The length penalty subtracted from the reward of row r
SubtractedPenalty(r) == RatSub(successes[r], rewards[r])

\* C9: the length penalty 1 - 1/(1 + penalty * message_length) is 0 when
\* penalty = 0 (the reward is then the success), lies in [0, 1) for every
\* message length >= 0, and for penalty > 0 is strictly increasing in the
\* message length.
C9_LengthPenalty ==
    gpc = "rewarded" =>
        /\ \A r \in Rows : LengthPenalties(RatInt(0), msg_lengths)[r] = RatInt(0)
        /\ penalty = RatInt(0) => rewards = successes
        /\ (RatLt(RatInt(0), penalty) /\ ~adaptative_penalty) =>
              \A r \in Rows :
                  /\ RatLe(RatInt(0), SubtractedPenalty(r))
                  /\ RatLt(SubtractedPenalty(r), RatInt(1))
                  /\ msg_lengths[r] = 0 <=> SubtractedPenalty(r) = RatInt(0)
                  /\ \A q \in Rows :
                         msg_lengths[r] < msg_lengths[q] =>
                             RatLt(SubtractedPenalty(r), SubtractedPenalty(q))

\* Rows of lengths 0 and 10 under a positive penalty, the longer one
\* penalised more
C9_Witness ==
    /\ gpc = "rewarded"
    /\ ~adaptative_penalty
    /\ penalty = Rat(1, 2)
    /\ \E r, q \in Rows :
          /\ msg_lengths[r] = 0
          /\ msg_lengths[q] = 10
          /\ SubtractedPenalty(r) = RatInt(0)
          /\ RatLt(RatInt(0), SubtractedPenalty(q))

\* |x - y| <= 1/1000
Within(x, y) ==
    /\ RatLe(RatSub(x, y), Rat(1, 1000))
    /\ RatLe(RatSub(y, x), Rat(1, 1000))

\* C10: with adaptative_penalty false and penalty = a/b > 0 the reward of a
\* row of length L is its success minus a*L / (b + a*L), and the returned
\* success is the unpenalised one; for penalty = 0.1 the subtracted penalty
\* of lengths 1, 5 and 10 is 0.0909, 0.333 and 0.5 up to 1e-3.
C10_PenalisedReward ==
    (gpc = "rewarded" /\ ~adaptative_penalty /\ RatLt(RatInt(0), penalty)) =>
        \A r \in Rows :
            LET L == msg_lengths[r]
                plain == IF use_expectation
                         THEN Rat(1, Len(receiver_scores[r]))
                         ELSE IF pointing_action[r] = 0 THEN RatInt(1) ELSE RatInt(0)
            IN  /\ successes[r] = plain
                /\ rewards[r] = RatSub(plain, Rat(penalty.n * L, penalty.d + penalty.n * L))
                /\ (penalty = Rat(1, 10) /\ L = 1) =>
                       Within(SubtractedPenalty(r), Rat(909, 10000))
                /\ (penalty = Rat(1, 10) /\ L = 5) =>
                       Within(SubtractedPenalty(r), Rat(333, 1000))
                /\ (penalty = Rat(1, 10) /\ L = 10) =>
                       Within(SubtractedPenalty(r), Rat(5, 10))

\* Scenario B: penalty 0.1 and rows of lengths 1 and 5, a successful row
\* keeping success 1 while its reward is lowered
C10_Witness ==
    /\ gpc = "rewarded"
    /\ ~adaptative_penalty
    /\ ~use_expectation
    /\ penalty = Rat(1, 10)
    /\ \E r, q \in Rows :
          /\ msg_lengths[r] = 1
          /\ msg_lengths[q] = 5
          /\ successes[r] = RatInt(1)
          /\ rewards[r] = Rat(10, 11)
          /\ rewards[q] = RatSub(successes[q], Rat(1, 3))

-----------------------------------------------------------------------------
\* Properties of a training step

\* C8 as stated: in both success modes a training step computes the sender
\* loss and the receiver loss and completes without raising an error of its
\* own (the only exception that may leave it is one of the logging sink).
C8_Original ==
    /\ error \in {"none", "SinkError"}
    /\ tpc = "raised" => error = "SinkError"

-----------------------------------------------------------------------------
\* Properties of the adaptive scaling of the length penalty

\* C11: for every running average in [0, 1] and every number of candidates
\* K >= 2 the adaptive factor min(0, (avg - 1/K) / (1 - 1/K)) is <= 0 (and
\* >= -1), so the scaled penalty is never above the base penalty
\* 1 - 1/(1 + penalty * length), neither in value nor in magnitude.
C11_FactorNotPositive ==
    (gpc = "rewarded" /\ adaptative_penalty /\ RatLt(RatInt(0), penalty)) =>
        LET factor == AdaptiveFactor(running_avg_success, receiver_scores)
            base == LengthPenalties(penalty, msg_lengths)
        IN  /\ RatLe(factor, RatInt(0))
            /\ RatLe(RatInt(-1), factor)
            /\ \A r \in Rows :
                  /\ SubtractedPenalty(r) = RatMul(base[r], factor)
                  /\ RatLe(SubtractedPenalty(r), base[r])
                  /\ RatLe(RatSub(RatInt(0), base[r]), SubtractedPenalty(r))

\* The factor at its lower end: -1 with a running average of 0 among K = 2
\* candidates, a row of positive length then getting a negative penalty
C11_Witness ==
    /\ gpc = "rewarded"
    /\ adaptative_penalty
    /\ RatLt(RatInt(0), penalty)
    /\ running_avg_success = RatInt(0)
    /\ Len(receiver_scores[1]) = 2
    /\ AdaptiveFactor(running_avg_success, receiver_scores) = RatInt(-1)
    /\ \E r \in Rows : RatLt(SubtractedPenalty(r), RatInt(0))

-----------------------------------------------------------------------------
\* Properties of the evaluation mode of the sender

\* C12: in evaluation mode every decoding step takes the argmax of its
\* distribution, so two calls of the sender on the same encoded input give
\* the same message and the same message length.
C12_EvalDeterministic ==
    /\ epc \in {"loop", "done"} => ~training
    /\ dpc \in {"loop", "stack", "done"} =>
          \A t \in 1..Len(message) : \A r \in DOMAIN encoded :
              message[t][r] \in {padding_idx,
                                 ArgMax(OutputAt(encoded[r], Stack(message)[r], t))}
    /\ \A j, k \in 1..Len(messages) :
          dataset[j] = dataset[k] =>
              /\ messages[j] = messages[k]
              /\ CountNot(messages[j], padding_idx) = CountNot(messages[k], padding_idx)
    /\ (epc = "loop" /\ dpc = "done") =>
          \A j \in 1..Len(messages) :
              dataset[j] = encoded[1] =>
                  /\ messages[j] = ViewFlat(outputs.message)
                  /\ CountNot(messages[j], padding_idx) = outputs.message_len[1]

\* Two datapoints of the same encoding got the same message, a third one of
\* another encoding got another message
C12_Witness ==
    /\ epc = "done"
    /\ \E j, k, l \in 1..Len(messages) :
          /\ j # k
          /\ dataset[j] = dataset[k]
          /\ messages[j] = messages[k]
          /\ dataset[l] # dataset[j]
          /\ messages[l] # messages[j]

-----------------------------------------------------------------------------
\* Properties of the symbols of a message

\* C13: every symbol of a message, while it is built and when it is
\* returned, is in 0..base_alphabet_size (EOS = 0 included) or is PAD =
\* base_alphabet_size + 1; BOS = base_alphabet_size + 2 is the decoder input
\* of the first timestep only and never appears in a message.
C13_SymbolRange ==
    /\ eos_index \in ActionSpace
    /\ padding_idx \notin ActionSpace
    /\ bos_index \notin ActionSpace \cup {padding_idx}
    /\ \A t \in 1..Len(message) : \A r \in DOMAIN message[t] :
          /\ message[t][r] \in ActionSpace \cup {padding_idx}
          /\ message[t][r] # bos_index
    /\ dpc = "done" =>
          \A r \in DOMAIN outputs.message : \A t \in 1..Len(outputs.message[r]) :
              /\ outputs.message[r][t] \in ActionSpace \cup {padding_idx}
              /\ outputs.message[r][t] # bos_index
    /\ dpc = "loop" =>
          \A r \in DOMAIN last_symbol :
              last_symbol[r] = bos_index <=> message = <<>>

\* A returned message holding EOS, PAD and a symbol above EOS, produced from
\* BOS as the first input
C13_Witness ==
    /\ dpc = "done"
    /\ \E r, q \in DOMAIN outputs.message :
          /\ \E t \in 1..Len(outputs.message[r]) : outputs.message[r][t] = padding_idx
          /\ \E t \in 1..Len(outputs.message[r]) : outputs.message[r][t] = eos_index
          /\ \E t \in 1..Len(outputs.message[q]) : outputs.message[q][t] = base_alphabet_size
          /\ OutputAt(encoded[r], outputs.message[r], 1)
                = LstmCell(InitialState(encoded[r]), Embedding(bos_index))

-----------------------------------------------------------------------------
\* Properties of build_cnn

\* C14 as stated: build_cnn raises AssertionError when layer_classes,
\* input_channels, output_channels and strides (and paddings or a per-layer
\* kernel_size list, when given) differ in length, ValueError for a layer
\* class outside conv, convTranspose, maxpool, avgpool, some error for an
\* invalid kernel size, and a network it returns uses the configuration as
\* given: layer j of a per-layer kernel_size list has the j-th kernel size.
C14_Original ==
    cnn # CnnNotBuilt =>
        LET a == cnn_args
            n == Len(a.layer_classes)
            lengths_differ ==
                \/ ~SameLengths(a)
                \/ a.paddings.given /\ Len(a.paddings.value) # n
                \/ a.kernel_size.type = "list" /\ Len(a.kernel_size.value) # n
        IN  /\ lengths_differ => cnn.raised = "AssertionError"
            /\ (~lengths_differ /\ a.kernel_size.type = "NoneType") =>
                   cnn.raised # "none"
            /\ (~lengths_differ /\ a.kernel_size.type # "NoneType"
                  /\ \E j \in 1..n : a.layer_classes[j] \notin SupportedLayerClasses) =>
                   cnn.raised = "ValueError"
            /\ cnn.raised = "none" =>
                   /\ Len(cnn.layers) = n
                   /\ \A j \in 1..n :
                         /\ cnn.layers[j].class = a.layer_classes[j]
                         /\ a.kernel_size.type = "list" =>
                                cnn.layers[j].kernel_size = <<a.kernel_size.value[j]>>
                         /\ a.kernel_size.type \in {"int", "size"} =>
                                cnn.layers[j].kernel_size = a.kernel_size.value

-----------------------------------------------------------------------------
\* Properties of the logging of a training step

\* C15 as stated: an exception raised by the logging sink (add_scalar, the
\* autologger) during a step is caught: it never leaves train_epoch, and
\* the loop goes on to the next step.
C15_Original == ~(tpc = "raised" /\ error = "SinkError")

\* C16: the tags given to the sink (i * batch_size in AliceBob.train_epoch,
\* the index in Game.train_epoch) are strictly increasing over the steps of
\* an epoch and over consecutive epochs: no tag is used twice, and the tag
\* of the step being logged is above every earlier one.
C16_TagsIncrease ==
    /\ \A j, k \in 1..Len(logged) : j < k => logged[j] < logged[k]
    /\ tpc = "log" => \A j \in 1..Len(logged) : logged[j] < step_i * BatchSize
    /\ tpc = "g_update" => \A j \in 1..Len(logged) : logged[j] < step_i

\* All the steps of all the epochs of AliceBob.train_epoch logged, the first
\* tag of the second epoch above the last tag of the first
C16_Witness ==
    /\ tpc = "done"
    /\ event_writer
    /\ Len(logged) = steps_per_epoch * MaxEpochs
    /\ logged[steps_per_epoch] = steps_per_epoch * BatchSize
    /\ logged[steps_per_epoch + 1] = (steps_per_epoch + 1) * BatchSize

-----------------------------------------------------------------------------
\* Properties of the order of a training step

IfEnabled(enabled, op) == IF enabled THEN <<op>> ELSE <<>>

\* The operations of one step of AliceBob.train_epoch, in order
AliceBobStepOps ==
    <<"zero_grad", "forward", "sender_loss", "receiver_loss", "backward">>
    \o IfEnabled(Enabled(grad_clipping), "clip_grad_value")
    \o IfEnabled(Enabled(grad_scaling), "clip_grad_norm")
    \o <<"optim_step", "stats">>
    \o IfEnabled(event_writer, "log")

\* The operations of one step of Game.train_epoch, in order
GameStepOps ==
    <<"zero_grad", "compute_interaction", "backward">>
    \o IfEnabled(GameEnabled(grad_clipping), "clip_grad_value")
    \o IfEnabled(GameEnabled(grad_scaling), "clip_grad_norm")
    \o <<"optim_step", "log">>

\* The operations of `ops` before `op`
Before(ops, op) ==
    SubSeq(ops, 1, (CHOOSE k \in 1..Len(ops) : ops[k] = op) - 1)

\* At every point of a training step the operations performed so far are
\* the first ones of the sequence zero_grad, forward, reward/loss, backward,
\* value-clipping (if enabled), norm-scaling (if enabled), optimizer step,
\* statistics update, logging, each once and in this order; the loss given
\* to backward is sender loss + receiver loss and one optimizer update is
\* applied per step.
StepOrder ==
    /\ tpc = "forward" => step_ops = Before(AliceBobStepOps, "forward")
    /\ tpc = "sender_loss" => step_ops = Before(AliceBobStepOps, "sender_loss")
    /\ tpc = "receiver_loss" => step_ops = Before(AliceBobStepOps, "receiver_loss")
    /\ tpc = "backward" => step_ops = Before(AliceBobStepOps, "backward")
    /\ tpc = "clip" =>
          /\ step_ops = Before(AliceBobStepOps, "backward") \o <<"backward">>
          /\ loss = [terms |-> {"sender_loss", "receiver_loss"}]
    /\ tpc = "scale" =>
          step_ops = Before(AliceBobStepOps, "backward") \o <<"backward">>
                     \o IfEnabled(Enabled(grad_clipping), "clip_grad_value")
    /\ tpc = "optim_step" => step_ops = Before(AliceBobStepOps, "optim_step")
    /\ tpc = "stats" => step_ops = Before(AliceBobStepOps, "stats")
    /\ tpc = "log" => step_ops = Before(AliceBobStepOps, "stats") \o <<"stats">>
    /\ tpc \in {"zero_grad", "end"} =>
          /\ step_ops = IF step_i = StartIndex(epoch) THEN <<>> ELSE AliceBobStepOps
          /\ optim_steps = step_i - StartIndex(epoch)
    /\ tpc \in {"stats", "log"} => optim_steps = step_i - StartIndex(epoch) + 1
    /\ tpc = "g_interaction" => step_ops = Before(GameStepOps, "compute_interaction")
    /\ tpc = "g_backward" => step_ops = Before(GameStepOps, "backward")
    /\ tpc = "g_clip" => step_ops = Before(GameStepOps, "backward") \o <<"backward">>
    /\ tpc = "g_scale" =>
          step_ops = Before(GameStepOps, "backward") \o <<"backward">>
                     \o IfEnabled(GameEnabled(grad_clipping), "clip_grad_value")
    /\ tpc = "g_optim_step" => step_ops = Before(GameStepOps, "optim_step")
    /\ tpc = "g_update" =>
          /\ step_ops = Before(GameStepOps, "log")
          /\ optim_steps = step_i - GameStartIndex(epoch) + 1
    /\ tpc \in {"g_episode", "g_end"} =>
          /\ step_ops = IF step_i = GameStartIndex(epoch) THEN <<>> ELSE GameStepOps
          /\ optim_steps = step_i - GameStartIndex(epoch)

\* `op` is among the operations the current step has performed
Performed(op) == \E k \in 1..Len(step_ops) : step_ops[k] = op

\* C19 as stated: every training step performs, in this order and each
\* exactly once, zero_grad, forward, reward/loss computation, one backward
\* of sender loss + receiver loss, value-clipping and norm-scaling (if
\* enabled, clipping first), one optimizer step, the statistics update and
\* logging: the operations done so far are always in this order, and no
\* step is left before its last operation.
C19_Original ==
    /\ StepOrder
    /\ tpc = "raised" =>
          step_ops = IF Performed("compute_interaction")
                     THEN GameStepOps ELSE AliceBobStepOps

-----------------------------------------------------------------------------
\* Properties of the running statistics

\* Number of steps of the current epoch whose statistics were added
StepsCounted == (step_i - StartIndex(epoch)) + (IF tpc = "log" THEN 1 ELSE 0)

\* The points of an epoch of AliceBob.train_epoch
InEpoch ==
    tpc \in {"zero_grad", "forward", "sender_loss", "receiver_loss", "backward",
             "clip", "scale", "optim_step", "stats", "log", "end"}

\* The statistics at a point of an epoch: those of the steps of this epoch
RunningStatistics ==
    InEpoch =>
        /\ total_items = BatchSize * StepsCounted
        /\ RatLe(RatInt(0), total_success)
        /\ RatLe(total_success, RatInt(total_items))
        /\ StepsCounted = 0 =>
              /\ total_success = RatInt(0)
              /\ total_reward = RatInt(0)
              /\ running_avg_success = RatInt(0)
              /\ running_avg_reward = RatInt(0)
        /\ StepsCounted > 0 =>
              /\ running_avg_success = RatDiv(total_success, RatInt(total_items))
              /\ RatLe(RatInt(0), running_avg_success)
              /\ RatLe(running_avg_success, RatInt(1))

\* The statistics update of a step adds the successes of the step's batch
StatisticsStep ==
    (tpc = "stats" /\ tpc' = "log") =>
        /\ total_success' = RatAdd(total_success, RatSum([r \in Rows |-> successes[r]]))
        /\ total_items' = total_items + BatchSize
        /\ running_avg_success' = RatDiv(total_success', RatInt(total_items'))

\* The reward computation of a step is given the average of the steps before
RewardStep ==
    (tpc = "sender_loss" /\ tpc' = "receiver_loss") =>
        /\ running_avg_success' = running_avg_success
        /\ running_avg_success =
              IF step_i = StartIndex(epoch) THEN RatInt(0)
              ELSE RatDiv(total_success, RatInt(BatchSize * (step_i - StartIndex(epoch))))
        /\ \E action \in PointingActions(receiver_scores) :
              rewards' = SenderRewards(msg_lengths, receiver_scores, running_avg_success,
                                       use_expectation, penalty, adaptative_penalty,
                                       action).rewards

\* C20: in AliceBob.train_epoch the running statistics are zero at the start
\* of every epoch; after each step running_avg_success is total_success /
\* total_items over the steps of the current epoch only, a cumulative
\* average in [0, 1]; the reward computation of step n is given the average
\* over the steps 1..n-1 of the epoch, 0 at the first step.
C20_RunningStatistics ==
    /\ []RunningStatistics
    /\ [][StatisticsStep /\ RewardStep]_vars

\* The second step of the second epoch counted: the average is over the two
\* steps of this epoch, one success among them
C20_Witness ==
    /\ tpc = "log"
    /\ epoch = 2
    /\ step_i = StartIndex(2) + 1
    /\ total_items = 2 * BatchSize
    /\ total_success = RatInt(1)
    /\ running_avg_success = Rat(1, 2 * BatchSize)

-----------------------------------------------------------------------------
\* Properties of the adaptive length penalty

\* C18 as stated: with adaptative_penalty set and penalty > 0, no length
\* penalty is subtracted while the running average of success is at or
\* below chance 1/K (the reward is the success), and once it is above
\* chance the length penalty is subtracted from the reward of a message of
\* positive length.
C18_Original ==
    (gpc = "rewarded" /\ adaptative_penalty /\ RatLt(RatInt(0), penalty)) =>
        LET chance_perf == Rat(1, Len(receiver_scores[1]))
        IN  \A r \in Rows :
                /\ RatLe(running_avg_success, chance_perf) => rewards[r] = successes[r]
                /\ (RatLt(chance_perf, running_avg_success) /\ msg_lengths[r] > 0) =>
                       RatLt(rewards[r], successes[r])

-----------------------------------------------------------------------------
\* Properties of the termination of message generation

\* Every row has emitted EOS within the first t timesteps run so far
AllEmittedEosBy(t) ==
    \A r \in DOMAIN encoded : \E s \in 1..t : message[s][r] = eos_index

\* C21: forward never runs more than max_len timesteps and runs none after
\* the timestep at which the last row emitted EOS; when it leaves the loop
\* the number of timesteps run, which is the width of the returned message,
\* is the first timestep t* by which every row has emitted EOS if there is
\* one, and max_len otherwise.
C21_Terminates ==
    /\ Len(message) <= max_msg_len
    /\ \A t \in 1..(Len(message) - 1) : ~AllEmittedEosBy(t)
    /\ dpc = "loop" => /\ Len(message) < max_msg_len
                       /\ ~AllEmittedEosBy(Len(message))
    /\ dpc \in {"stack", "done"} =>
          /\ AllEmittedEosBy(Len(message)) \/ Len(message) = max_msg_len
          /\ dpc = "done" =>
                \A r \in DOMAIN encoded : Len(outputs.message[r]) = Len(message)

\* A batch whose last row emitted EOS at the second timestep: forward returned
\* a message of width 2 < max_len
C21_Witness ==
    /\ dpc = "done"
    /\ Len(message) = 2
    /\ 2 < max_msg_len
    /\ AllEmittedEosBy(2)
    /\ \A r \in DOMAIN encoded : Len(outputs.message[r]) = 2

-----------------------------------------------------------------------------
\* Properties of the gradient thresholds

\* A threshold that is None, 0 or negative
Disabled(threshold) == threshold = <<>> \/ threshold[1] <= 0

\* The operations the current step has performed after its backward pass
AfterBackward ==
    SubSeq(step_ops,
           (CHOOSE k \in 1..Len(step_ops) : step_ops[k] = "backward") + 1,
           Len(step_ops))

ClippingIfEnabled == IF Disabled(grad_clipping) THEN <<>> ELSE <<"clip_grad_value">>

ScalingIfEnabled == IF Disabled(grad_scaling) THEN <<>> ELSE <<"clip_grad_norm">>

\* C22: in AliceBob.train_epoch, and in Game.train_epoch with thresholds
\* set to `args.grad_... or 0`, no step raises TypeError on a threshold, and
\* between backward and the optimizer step a step performs value-clipping
\* exactly when grad_clipping is not None, 0 or negative and norm-scaling
\* exactly when grad_scaling is not, each whatever the other threshold is:
\* with both disabled the optimizer step directly follows backward.
C22_DisabledThresholds ==
    /\ error # "TypeError"
    /\ tpc \in {"scale", "g_scale"} => AfterBackward = ClippingIfEnabled
    /\ tpc \in {"optim_step", "g_optim_step"} =>
          AfterBackward = ClippingIfEnabled \o ScalingIfEnabled
    /\ tpc \in {"stats", "g_update"} =>
          AfterBackward = ClippingIfEnabled \o ScalingIfEnabled \o <<"optim_step">>

\* A step of AliceBob.train_epoch with grad_clipping = None and grad_scaling
\* enabled went from backward to norm-scaling and the optimizer step
C22_Witness ==
    /\ tpc = "stats"
    /\ grad_clipping = <<>>
    /\ grad_scaling = <<1>>
    /\ AfterBackward = <<"clip_grad_norm", "optim_step">>
    /\ error = "none"

-----------------------------------------------------------------------------
\* Properties of the mode of the model around an evaluation call

\* C23 as stated: the model is in exactly one of training and evaluation
\* mode, and when the message generation of decision_tree_standalone (the
\* same statements as in AliceBob.decision_tree) has returned, the model is
\* in the mode it was in when the call was made.
C23_Original ==
    /\ training \in BOOLEAN
    /\ epc = "done" => training = called_in_training

-----------------------------------------------------------------------------
\* Properties of the population variant

\* A call of forward that plays the round with the s-th sender and the r-th
\* receiver
PlayedBy(s, r) ==
    /\ PopulationForward
    /\ rounds' = Append(rounds, [sender |-> senders[s], receiver |-> receivers[r]])

\* C24: whatever agents played the earlier rounds, and whether or not the
\* agents were built as shared couples, the next call of forward may draw
\* every combination of a sender and a receiver of the population: those
\* with different indices and the pair of the previous round included.
C24_IndependentDraws ==
    senders # <<>> /\ Len(rounds) < MaxRounds =>
        \A s \in 1..population : \A r \in 1..population : ENABLED PlayedBy(s, r)

\* Shared couples: the sender of the first couple played every round with the
\* receiver of the second, and the other two modules played none
C24_Witness ==
    /\ shared
    /\ Len(rounds) = MaxRounds
    /\ population > 1
    /\ \A k \in 1..MaxRounds :
          rounds[k] = [sender |-> senders[1], receiver |-> receivers[2]]
    /\ senders[1].built # receivers[2].built

-----------------------------------------------------------------------------
\* Properties of the length of an epoch

\* train_epoch has returned
Returned == tpc \in {"done", "g_done"} \/ (tpc \in {"idle", "g_idle"} /\ epoch > 1)

\* The epoch that was just left did steps_per_epoch optimizer steps and, in
\* AliceBob.train_epoch, as many statistics updates, and the model is in
\* evaluation mode
EpochComplete ==
    /\ optim_steps = steps_per_epoch
    /\ ~Performed("compute_interaction") => total_items = steps_per_epoch * BatchSize
    /\ ~training

\* An epoch that returns is complete
CompleteWhenReturned == Returned => EpochComplete

\* C25 as stated: every call of train_epoch (the data iterator never runs
\* out) performs exactly steps_per_epoch training steps, with one optimizer
\* step and one statistics update each, then terminates and leaves the model
\* in evaluation mode.
C25_Original == (Returned \/ tpc = "raised") => EpochComplete

-----------------------------------------------------------------------------
\* Properties of the two pointing draws of a step

\* In dice mode, when both losses of a step are computed: the receiver's
\* reward of a row is 1 exactly when the action the receiver drew from the
\* step's scores is the target, and the sender's success is 0 or 1
TwoDraws ==
    (tpc = "backward" /\ ~use_expectation) =>
        /\ receiver_loss.log_prob_of \in PointingActions(receiver_scores)
        /\ \A r \in Rows :
              /\ receiver_loss.rewards[r] =
                    (IF receiver_loss.log_prob_of[r] = 0 THEN RatInt(1) ELSE RatInt(0))
              /\ successes[r] \in {RatInt(0), RatInt(1)}

\* receiver_loss leaves the successes and rewards that sender_loss returned
ReceiverDrawStep ==
    (tpc = "receiver_loss" /\ tpc' = "backward") =>
        /\ successes' = successes
        /\ rewards' = rewards

\* The statistics and the log are given the successes sender_loss returned
RecordedStep ==
    (tpc = "stats" /\ tpc' = "log") =>
        /\ successes' = successes
        /\ total_success' = RatAdd(total_success, RatSum([r \in Rows |-> successes[r]]))

\* C26: in dice mode sender_rewards and receiver_loss each draw a pointing
\* action from the scores of the step; the receiver is rewarded for its own
\* draw, and what the step adds to the running statistics is the success of
\* the sender's draw, which the receiver's draw does not change.
C26_SeparateDraws ==
    /\ []TwoDraws
    /\ [][ReceiverDrawStep /\ RecordedStep]_vars

\* A step in which the sender's draw hit the target at a row and the
\* receiver's draw from the same scores missed it
C26_Witness ==
    /\ tpc = "backward"
    /\ ~use_expectation
    /\ \E r \in Rows :
          /\ successes[r] = RatInt(1)
          /\ receiver_loss.rewards[r] = RatInt(0)
          /\ receiver_loss.log_prob_of[r] # 0

-----------------------------------------------------------------------------
\* Properties of the reward under the adaptive penalty

\* 1 / receiver_scores.size(1)
ChancePerf == Rat(1, Len(receiver_scores[1]))

\* What the reward of row r exceeds its success by
RewardBonus(r) == RatSub(rewards[r], successes[r])

\* C27: with adaptative_penalty set and penalty > 0 the reward of every row
\* is at least its success: equal to it when running_avg_success >= 1/K or
\* the message is empty, strictly greater when running_avg_success < 1/K and
\* the message length is positive, and then the greater the longer the
\* message.
C27_RewardAtLeastSuccess ==
    (gpc = "rewarded" /\ adaptative_penalty /\ RatLt(RatInt(0), penalty)) =>
        /\ \A r \in Rows :
              /\ RatLe(successes[r], rewards[r])
              /\ RatLe(ChancePerf, running_avg_success) => rewards[r] = successes[r]
              /\ msg_lengths[r] = 0 => rewards[r] = successes[r]
              /\ (RatLt(running_avg_success, ChancePerf) /\ msg_lengths[r] > 0) =>
                    RatLt(successes[r], rewards[r])
        /\ \A r1, r2 \in Rows :
              (RatLt(running_avg_success, ChancePerf) /\ msg_lengths[r1] < msg_lengths[r2]) =>
                  RatLt(RewardBonus(r1), RewardBonus(r2))

\* Below chance (running average 1/3 among K = 2 candidates), a batch with a
\* message of length 1 and one of length 5: both rewards exceed the success,
\* the longer message's by more
C27_Witness ==
    /\ gpc = "rewarded"
    /\ adaptative_penalty
    /\ RatLt(RatInt(0), penalty)
    /\ running_avg_success = Rat(1, 3)
    /\ Len(receiver_scores[1]) = 2
    /\ msg_lengths[1] = 1
    /\ msg_lengths[2] = 5
    /\ RatLt(successes[1], rewards[1])
    /\ RatLt(RewardBonus(1), RewardBonus(2))

-----------------------------------------------------------------------------
\* Properties of the decoder's output as the encoder's input

\* The timesteps the encoder's mask (index == length - 1) selects in row r
SelectedSteps(msg, length, r) ==
    {t \in 1..Len(msg[r]) : SelectMask(msg, length)[r][t]}

\* C28: in every batch that MessageDecoder.forward returns the width of the
\* message tensor is the largest message_len; a row has at most one EOS, at
\* its last non-PAD position; 1 <= message_len <= width for every row; the
\* encoder's mask selects exactly one timestep of every row, the one at
\* message_len, and MessageEncoder.forward's view to [batch, output_dim]
\* succeeds on the message.
C28_DecoderFeedsEncoder ==
    dpc = "done" =>
        LET msg == outputs.message
            len == outputs.message_len
            width == Len(message)
        IN  /\ MaxOf({len[r] : r \in DOMAIN msg}) = width
            /\ \A r \in DOMAIN msg :
                  /\ Len(msg[r]) = width
                  /\ 1 <= len[r] /\ len[r] <= width
                  /\ Cardinality(EosPositions(msg[r])) <= 1
                  /\ \A t \in EosPositions(msg[r]) : t = len[r]
                  /\ \A t \in 1..width : (msg[r][t] = padding_idx) <=> (t > len[r])
                  /\ SelectedSteps(msg, len, r) = {len[r]}
            /\ MessageEncoderForward(msg, len).ok
            /\ Len(MessageEncoderForward(msg, len).value) = Len(msg)

\* A batch of width 3 whose first row is EOS followed by two PAD and whose
\* second row has three symbols: the encoder selects step 1 and step 3
C28_Witness ==
    /\ dpc = "done"
    /\ Len(message) = 3
    /\ outputs.message_len[1] = 1
    /\ outputs.message_len[2] = 3
    /\ outputs.message[1] = <<eos_index, padding_idx, padding_idx>>
    /\ SelectedSteps(outputs.message, outputs.message_len, 1) = {1}
    /\ SelectedSteps(outputs.message, outputs.message_len, 2) = {3}
    /\ MessageEncoderForward(outputs.message, outputs.message_len).ok

-----------------------------------------------------------------------------
\* Properties of the messages of a batch of one image

\* The symbols decision_tree accepts: 0 <= symbol < alphabet_size
\* = 1 + model.base_alphabet_size
TreeAlphabet == 0..((1 + base_alphabet_size) - 1)

\* C29: every message the sender emits for a batch of one image, as
\* decision_tree_standalone and AliceBob.decision_tree collect them, has no
\* PAD: it ends with its only EOS or it has max_len symbols and no EOS; all
\* its symbols are in [0, 1 + base_alphabet_size).
C29_NoPadInSingleMessage ==
    \A k \in 1..Len(messages) :
        LET msg == messages[k]
        IN  /\ \A t \in 1..Len(msg) : msg[t] # padding_idx /\ msg[t] \in TreeAlphabet
            /\ 1 <= Len(msg) /\ Len(msg) <= max_msg_len
            /\ \/ EosPositions(msg) = {Len(msg)}
               \/ EosPositions(msg) = {} /\ Len(msg) = max_msg_len

\* A dataset for which the sender emitted a message that is EOS alone and a
\* message of max_len symbols without EOS
C29_Witness ==
    /\ epc = "done"
    /\ \E k \in 1..Len(messages) : messages[k] = <<eos_index>>
    /\ \E k \in 1..Len(messages) :
          /\ Len(messages[k]) = max_msg_len
          /\ EosPositions(messages[k]) = {}

-----------------------------------------------------------------------------
\* Properties of ngram_to_idx

\* C30: whatever n-grams of length 1..n over [0, alphabet_size) were given
\* to ngram_to_idx so far, no call has raised (the assertion never failed,
\* no index was out of range), every n-gram in the list sits at its own
\* index, every n-gram has an index in [0, nb_ngrams) whose entry is empty
\* or that n-gram itself (no two n-grams share an index), and the n-gram of
\* n last symbols has index nb_ngrams - 1.
C30_NgramIdxInjective ==
    npc # "unused" =>
        /\ nerror = "none"
        /\ Len(ngrams) = NbNgrams(tree)
        /\ idx \in 0..(NbNgrams(tree) - 1)
        /\ \A k \in 1..Len(ngrams) :
              ngrams[k] # <<>> => ngrams[k] \in Ngrams(tree) /\ NgramIdx(ngrams[k]) = k - 1
        /\ \A ngram \in Ngrams(tree) :
              /\ NgramIdx(ngram) \in 0..(NbNgrams(tree) - 1)
              /\ ngrams[NgramIdx(ngram) + 1] \in {<<>>, ngram}
        /\ NgramIdx(LastTuple(tree)) = NbNgrams(tree) - 1
        /\ (tree = "decision_tree" /\ npc = "messages") =>
              ngrams[NbNgrams(tree)] = LastTuple(tree)

\* decision_tree after the n-gram of three last symbols and the n-grams (0)
\* and (0, 0): the indices nb_ngrams - 1, 0 and alphabet_size
C30_Witness ==
    /\ tree = "decision_tree"
    /\ npc = "messages"
    /\ ngrams[1] = <<0>>
    /\ ngrams[alphabet_size + 1] = <<0, 0>>
    /\ ngrams[NbNgrams(tree)] = LastTuple(tree)
    /\ idx = alphabet_size
    /\ nerror = "none"

====
